---- MODULE Spec2Model ----
(***************************************************************************)
(* A model of the libnoise module graph: the Module base class (child      *)
(* slots, SetSourceModule / GetSourceModule), the parameter setters of     *)
(* Perlin, Billow, RidgedMulti, Clamp and Select, and GetValue of the      *)
(* combinators, evaluated step by step by concurrent threads.              *)
(*                                                                         *)
(* A double is modelled by an exact rational <<numerator, denominator>>.   *)
(***************************************************************************)
EXTENDS Integers, Sequences, FiniteSets, TLC

\* ------------------------------------------------------------------------
\* Bounds of the model
\* ------------------------------------------------------------------------
MaxBound == 3

MaxEvals == 2

\* ------------------------------------------------------------------------
\* Exact arithmetic standing for double arithmetic
\* ------------------------------------------------------------------------
Abs(n) == IF n < 0 THEN -n ELSE n

RECURSIVE GCD(_, _)
GCD(a, b) == IF b = 0 THEN a ELSE GCD(b, a % b)

Norm(n, d) ==
    LET s == IF d < 0 THEN -1 ELSE 1
        g == GCD(Abs(n), Abs(d))
    IN  IF n = 0 THEN <<0, 1>> ELSE <<(s * n) \div g, (s * d) \div g>>

Q(n) == <<n, 1>>

QAdd(a, b) == Norm(a[1] * b[2] + b[1] * a[2], a[2] * b[2])

QSub(a, b) == Norm(a[1] * b[2] - b[1] * a[2], a[2] * b[2])

QMul(a, b) == Norm(a[1] * b[1], a[2] * b[2])

QDiv(a, b) == Norm(a[1] * b[2], a[2] * b[1])

QLt(a, b) == a[1] * b[2] < b[1] * a[2]

QGt(a, b) == QLt(b, a)

QLe(a, b) == ~QLt(b, a)

QFloor(a) == a[1] \div a[2]

\* ------------------------------------------------------------------------
\* IEEE-754 binary64 arithmetic (round to nearest, ties to even)
\* ------------------------------------------------------------------------
\* A finite double is <<sgn, man, ex>> with value sgn * man * 2^ex, where
\* man is a natural number wider than the integers of the model checker: a
\* sequence of limbs, least significant first, without leading zero limbs.
\* The canonical form has an odd man, or <<1, <<>>, 0>> for zero.  Overflow,
\* subnormal numbers, infinities and NaN lie outside the values used here.
LimbBits == 14

Limb == 2^LimbBits

MantissaBits == 53

RECURSIVE WTrim(_)
WTrim(a) ==
    IF a = <<>> THEN <<>>
    ELSE IF a[Len(a)] = 0 THEN WTrim(SubSeq(a, 1, Len(a) - 1)) ELSE a

RECURSIVE WFromInt(_)
WFromInt(n) == IF n = 0 THEN <<>> ELSE <<n % Limb>> \o WFromInt(n \div Limb)

WHead(a) == IF a = <<>> THEN 0 ELSE a[1]

WTail(a) == IF a = <<>> THEN <<>> ELSE Tail(a)

RECURSIVE WAddC(_, _, _)
WAddC(a, b, carry) ==
    IF a = <<>> /\ b = <<>>
    THEN IF carry = 0 THEN <<>> ELSE <<carry>>
    ELSE LET s == WHead(a) + WHead(b) + carry
         IN  <<s % Limb>> \o WAddC(WTail(a), WTail(b), s \div Limb)

WAdd(a, b) == WAddC(a, b, 0)

\* a - b for a >= b
RECURSIVE WSubB(_, _, _)
WSubB(a, b, borrow) ==
    IF a = <<>> THEN <<>>
    ELSE LET d == WHead(a) - WHead(b) - borrow
         IN  IF d < 0
             THEN <<d + Limb>> \o WSubB(WTail(a), WTail(b), 1)
             ELSE <<d>> \o WSubB(WTail(a), WTail(b), 0)

WSub(a, b) == WTrim(WSubB(a, b, 0))

\* -1, 0 or 1 as a < b, a = b or a > b
RECURSIVE WCmpFrom(_, _, _)
WCmpFrom(a, b, i) ==
    IF i = 0 THEN 0
    ELSE IF a[i] < b[i] THEN -1
    ELSE IF a[i] > b[i] THEN 1
    ELSE WCmpFrom(a, b, i - 1)

WCmp(a, b) ==
    IF Len(a) < Len(b) THEN -1
    ELSE IF Len(a) > Len(b) THEN 1
    ELSE WCmpFrom(a, b, Len(a))

\* a * k for 0 <= k <= Limb
RECURSIVE WMulSmallC(_, _, _)
WMulSmallC(a, k, carry) ==
    IF a = <<>>
    THEN WFromInt(carry)
    ELSE LET s == a[1] * k + carry
         IN  <<s % Limb>> \o WMulSmallC(Tail(a), k, s \div Limb)

WMulSmall(a, k) == WTrim(WMulSmallC(a, k, 0))

WShlLimbs(a, n) == IF a = <<>> THEN <<>> ELSE [i \in 1..n |-> 0] \o a

RECURSIVE WMul(_, _)
WMul(a, b) ==
    IF b = <<>> THEN <<>>
    ELSE WAdd(WMulSmall(a, b[1]), WShlLimbs(WMul(a, Tail(b)), 1))

\* a * 2^k
WShl(a, k) == WShlLimbs(WMulSmall(a, 2^(k % LimbBits)), k \div LimbBits)

\* floor(a / d) for 0 < d <= Limb, most significant limb first
RECURSIVE WDivSmallR(_, _, _, _)
WDivSmallR(a, d, i, rem) ==
    IF i = 0 THEN <<>>
    ELSE LET cur == rem * Limb + a[i]
         IN  WDivSmallR(a, d, i - 1, cur % d) \o <<cur \div d>>

WDivSmall(a, d) == WTrim(WDivSmallR(a, d, Len(a), 0))

\* floor(a / 2^k)
WShr(a, k) ==
    IF k \div LimbBits >= Len(a) THEN <<>>
    ELSE WDivSmall(SubSeq(a, (k \div LimbBits) + 1, Len(a)), 2^(k % LimbBits))

RECURSIVE BitLen(_)
BitLen(n) == IF n = 0 THEN 0 ELSE 1 + BitLen(n \div 2)

WBitLen(a) == IF a = <<>> THEN 0 ELSE LimbBits * (Len(a) - 1) + BitLen(a[Len(a)])

\* bit i of a, bit 0 being the least significant
WBit(a, i) ==
    IF (i \div LimbBits) + 1 > Len(a) THEN 0
    ELSE (a[(i \div LimbBits) + 1] \div 2^(i % LimbBits)) % 2

\* The largest digit d in lo..hi with b * d <= r
RECURSIVE WQuotientDigit(_, _, _, _)
WQuotientDigit(r, b, lo, hi) ==
    IF lo = hi THEN lo
    ELSE LET mid == (lo + hi + 1) \div 2
         IN  IF WCmp(WMulSmall(b, mid), r) <= 0
             THEN WQuotientDigit(r, b, mid, hi)
             ELSE WQuotientDigit(r, b, lo, mid - 1)

\* <<floor(a / b), a mod b>> for b > 0, by long division from limb i down
RECURSIVE WDivModFrom(_, _, _, _, _)
WDivModFrom(a, b, i, q, r) ==
    IF i = 0 THEN <<WTrim(q), r>>
    ELSE LET cur == WTrim(<<a[i]>> \o r)
             d == WQuotientDigit(cur, b, 0, Limb - 1)
         IN  WDivModFrom(a, b, i - 1, <<d>> \o q, WSub(cur, WMulSmall(b, d)))

WDivMod(a, b) == WDivModFrom(a, b, Len(a), <<>>, <<>>)

RECURSIVE WTrailingZeros(_)
WTrailingZeros(a) ==
    IF a[1] = 0 THEN LimbBits + WTrailingZeros(Tail(a))
    ELSE IF a[1] % 2 = 0 THEN 1 + WTrailingZeros(<<a[1] \div 2>>)
    ELSE 0

DZero == <<1, <<>>, 0>>

DCanon(sgn, man, ex) ==
    IF man = <<>> THEN DZero
    ELSE LET tz == WTrailingZeros(man)
         IN  <<sgn, WShr(man, tz), ex + tz>>

\* The double nearest to sgn * (man + f) * 2^ex, where 0 <= f < 1 and sticky
\* tells whether f > 0; a caller that passes sticky gives man at least two
\* bits more than a mantissa holds.
DRound(sgn, man, ex, sticky) ==
    LET len == WBitLen(man)
    IN  IF len <= MantissaBits THEN DCanon(sgn, man, ex)
        ELSE LET s == len - MantissaBits
                 kept == WShr(man, s)
                 rest == WSub(man, WShl(kept, s))
                 c == WCmp(rest, WShl(<<1>>, s - 1))
                 up == c > 0 \/ (c = 0 /\ (sticky \/ WBit(kept, 0) = 1))
             IN  DCanon(sgn, IF up THEN WAdd(kept, <<1>>) ELSE kept, ex + s)

\* The double of the integer n times 2^ex, |n| < 2^31 (a literal such as 0.5 = D(1, -1))
D(n, ex) == DCanon(IF n < 0 THEN -1 ELSE 1, WFromInt(IF n < 0 THEN -n ELSE n), ex)

DMin(a, b) == IF a < b THEN a ELSE b

DNeg(a) == IF a[2] = <<>> THEN a ELSE <<-a[1], a[2], a[3]>>

\* -1, 0 or 1 as a < b, a = b or a > b
DCmp(a, b) ==
    LET e == DMin(a[3], b[3])
        ma == WShl(a[2], a[3] - e)
        mb == WShl(b[2], b[3] - e)
    IN  IF a[1] # b[1] THEN (IF a[2] = <<>> /\ b[2] = <<>> THEN 0 ELSE a[1])
        ELSE a[1] * WCmp(ma, mb)

DLt(a, b) == DCmp(a, b) < 0

DAdd(a, b) ==
    LET e == DMin(a[3], b[3])
        ma == WShl(a[2], a[3] - e)
        mb == WShl(b[2], b[3] - e)
        c == WCmp(ma, mb)
    IN  IF a[1] = b[1] THEN DRound(a[1], WAdd(ma, mb), e, FALSE)
        ELSE IF c = 0 THEN DZero
        ELSE IF c > 0 THEN DRound(a[1], WSub(ma, mb), e, FALSE)
        ELSE DRound(b[1], WSub(mb, ma), e, FALSE)

DSub(a, b) == DAdd(a, DNeg(b))

DMul(a, b) == DRound(a[1] * b[1], WMul(a[2], b[2]), a[3] + b[3], FALSE)

\* a / b for b # 0
DDiv(a, b) ==
    IF a[2] = <<>> THEN DZero
    ELSE LET need == (MantissaBits + 3) + WBitLen(b[2]) - WBitLen(a[2])
             k == IF need > 0 THEN need ELSE 0
             qr == WDivMod(WShl(a[2], k), b[2])
         IN  DRound(a[1] * b[1], qr[1], a[3] - b[3] - k, qr[2] # <<>>)

\* ------------------------------------------------------------------------
\* 32-bit integers (noise::int32, int)
\* ------------------------------------------------------------------------
\* noise::int32 is std::int32_t
MaxInt32 == 2147483647

MinInt32 == -MaxInt32 - 1

\* The unsigned 16-bit halves of the 32 bits of the int32 n.
Low16(n) == n % 65536

High16(n) == (n \div 65536) % 65536

\* The int32 whose 32 bits have the halves high and low.
FromHalves(high, low) ==
    (IF high >= 32768 THEN high - 65536 ELSE high) * 65536 + low

\* The product of the 16-bit a and b, taken a byte of b at a time: its low
\* 16 bits, and the bits above them.
MulLow16(a, b) ==
    (a * (b % 256) + ((a * (b \div 256)) % 256) * 256) % 65536

MulCarry16(a, b) ==
    ((a * (b % 256) + ((a * (b \div 256)) % 256) * 256) \div 65536)
        + ((a * (b \div 256)) \div 256)

\* a * b on int32, wrapping modulo 2^32
Mul32(a, b) ==
    FromHalves((MulCarry16(Low16(a), Low16(b)) + MulLow16(High16(a), Low16(b))
                    + MulLow16(Low16(a), High16(b))) % 65536,
               MulLow16(Low16(a), Low16(b)))

\* a + b on int32, wrapping modulo 2^32
Add32(a, b) ==
    IF b > 0 /\ a > MaxInt32 - b THEN (a + MinInt32) + (b + MinInt32)
    ELSE IF b < 0 /\ a < MinInt32 - b THEN (a - MinInt32) + (b - MinInt32)
    ELSE a + b

\* ------------------------------------------------------------------------
\* Module kinds and the instances of the model
\* ------------------------------------------------------------------------
nullptr == "nullptr"

Kinds ==
    {"Const", "Checkerboard", "Perlin", "Billow", "RidgedMulti", "Voronoi",
     "Cylinders", "Spheres", "Clamp", "Curve", "Exponent", "Invert",
     "ScaleBias", "Terrace", "TranslatePoint", "ScalePoint", "RotatePoint",
     "Turbulence", "Add", "Multiply", "Power", "Blend", "Select", "Displace"}

\* The value each kind's GetSourceModuleCount() returns.
GetSourceModuleCount(kind) ==
    CASE kind \in {"Const", "Checkerboard", "Perlin", "Billow", "RidgedMulti",
                   "Voronoi", "Cylinders", "Spheres"} -> 0
      [] kind \in {"Clamp", "Curve", "Exponent", "Invert", "ScaleBias",
                   "Terrace", "TranslatePoint", "ScalePoint", "RotatePoint",
                   "Turbulence"} -> 1
      [] kind \in {"Add", "Multiply", "Power"} -> 2
      [] kind \in {"Blend", "Select"} -> 3
      [] kind = "Displace" -> 4

\* The module objects of the model, one name per object, and their classes.
KindOf ==
    [const |-> "Const", checker |-> "Checkerboard", perlin |-> "Perlin",
     billow |-> "Billow", ridged |-> "RidgedMulti", clamp |-> "Clamp",
     add |-> "Add", blend |-> "Blend", select |-> "Select",
     displace |-> "Displace"]

Modules == DOMAIN KindOf

Count(m) == GetSourceModuleCount(KindOf[m])

OctaveModules == {m \in Modules : KindOf[m] \in {"Perlin", "Billow", "RidgedMulti"}}

BoundsModules == {m \in Modules : KindOf[m] \in {"Clamp", "Select"}}

VARIABLES
    m_sourceModules,   \* [module -> sequence of child pointers]
    m_octaveCount,     \* [Perlin/Billow/RidgedMulti object -> int]
    m_lowerBound,      \* [Clamp/Select object -> double]
    m_upperBound,      \* [Clamp/Select object -> double]
    m_edgeFalloff,     \* Select's edge falloff
    m_constValue,      \* Const's value
    aborted,           \* TRUE once a failed assert() has ended the process
    last,              \* the last call made: operation, arguments, outcome
    bound,             \* history: the module last bound to each slot
    stack,             \* [thread -> sequence of GetValue activations]
    locals,            \* storage of the activations' local variables
    done,              \* [thread -> sequence of finished evaluations]
    m_controlPoints,   \* [Curve/Terrace object -> sorted sequence of control points]
    m_invertTerraces,  \* Terrace's inversion flag
    m_distortModule,   \* Turbulence's Perlin members: [x, y, z -> Perlin fields]
    m_ridged,          \* RidgedMulti's fields other than the octave count
    m_translation,     \* [TranslatePoint object -> <<x, y, z>> translation]
    setter,            \* the thread running Select::SetBounds, step by step
    reader,            \* the thread reading Select's fields in GetValue
    build              \* NoiseMapBuilderSphere::Build and its worker threads

tableState == <<m_controlPoints, m_invertTerraces>>

generatorState == <<m_distortModule, m_ridged, m_translation>>

threadState == <<setter, reader, build>>

moduleState ==
    <<m_sourceModules, m_octaveCount, m_lowerBound, m_upperBound,
      m_edgeFalloff, m_constValue, tableState, generatorState>>

evalState == <<stack, locals, done, threadState>>

vars ==
    <<m_sourceModules, m_octaveCount, m_lowerBound, m_upperBound,
      m_edgeFalloff, m_constValue, aborted, last, bound, stack,
      locals, done, m_controlPoints, m_invertTerraces, m_distortModule,
      m_ridged, m_translation, setter, reader, build>>

\* ------------------------------------------------------------------------
\* Construction
\* ------------------------------------------------------------------------
\* A constructor that leaves the vector default-constructed (empty).
ModuleCtorEmpty(sourceModuleCount) == <<>>

\* Module::Module(sourceModuleCount): a vector of that many null pointers.
ModuleCtor(sourceModuleCount) == [i \in 1..sourceModuleCount |-> nullptr]

DEFAULT_PERLIN_OCTAVE_COUNT == 6

DEFAULT_BILLOW_OCTAVE_COUNT == 6

DEFAULT_RIDGED_OCTAVE_COUNT == 6

PERLIN_MAX_OCTAVE == 30

BILLOW_MAX_OCTAVE == 30

RIDGED_MAX_OCTAVE == 30

\* A check that forgets the upper limit.
OctaveCountInvalidNoUpper(kind, octaveCount) ==
    CASE kind = "Perlin" -> octaveCount < 1
      [] kind = "Billow" -> octaveCount < 1
      [] kind = "RidgedMulti" -> FALSE

\* A check that forgets the lower limit in every class.
OctaveCountInvalidNoLower(kind, octaveCount) ==
    CASE kind = "Perlin" -> octaveCount > PERLIN_MAX_OCTAVE
      [] kind = "Billow" -> octaveCount > BILLOW_MAX_OCTAVE
      [] kind = "RidgedMulti" -> octaveCount > RIDGED_MAX_OCTAVE

\* The argument check of SetOctaveCount in each class.
OctaveCountInvalid(kind, octaveCount) ==
    CASE kind = "Perlin" -> octaveCount < 1 \/ octaveCount > PERLIN_MAX_OCTAVE
      [] kind = "Billow" -> octaveCount < 1 \/ octaveCount > BILLOW_MAX_OCTAVE
      [] kind = "RidgedMulti" -> octaveCount > RIDGED_MAX_OCTAVE

DefaultOctaveCount(kind) ==
    CASE kind = "Perlin" -> DEFAULT_PERLIN_OCTAVE_COUNT
      [] kind = "Billow" -> DEFAULT_BILLOW_OCTAVE_COUNT
      [] kind = "RidgedMulti" -> DEFAULT_RIDGED_OCTAVE_COUNT

\* DEFAULT_CLAMP_LOWER_BOUND, DEFAULT_SELECT_LOWER_BOUND
DEFAULT_LOWER_BOUND == Q(-1)

\* DEFAULT_CLAMP_UPPER_BOUND, DEFAULT_SELECT_UPPER_BOUND
DEFAULT_UPPER_BOUND == Q(1)

DEFAULT_SELECT_EDGE_FALLOFF == Q(0)

DEFAULT_CONST_VALUE == Q(0)

\* Curve::Curve and Terrace::Terrace: no control points, terraces not inverted.
TablesConstructed ==
    /\ m_controlPoints = [curve |-> <<>>, terrace |-> <<>>]
    /\ m_invertTerraces = FALSE

DEFAULT_PERLIN_FREQUENCY == Q(1)

DEFAULT_PERLIN_SEED == 0

\* Perlin::Perlin: the fields Turbulence sets later
PerlinCtor ==
    [m_frequency |-> DEFAULT_PERLIN_FREQUENCY,
     m_octaveCount |-> DEFAULT_PERLIN_OCTAVE_COUNT,
     m_seed |-> DEFAULT_PERLIN_SEED]

\* Perlin::SetOctaveCount on one Perlin object: throws and changes nothing,
\* or stores the count.
PerlinSetOctaveCount(perlin, octaveCount) ==
    IF OctaveCountInvalid("Perlin", octaveCount)
    THEN [throws |-> TRUE, perlin |-> perlin]
    ELSE [throws |-> FALSE, perlin |-> [perlin EXCEPT !.m_octaveCount = octaveCount]]

DEFAULT_TURBULENCE_FREQUENCY == DEFAULT_PERLIN_FREQUENCY

DEFAULT_TURBULENCE_ROUGHNESS == 3

DEFAULT_TURBULENCE_SEED == DEFAULT_PERLIN_SEED

\* Turbulence::SetSeed: seed, seed + 1, seed + 2 in int arithmetic
TurbulenceSetSeed(distort, seed) ==
    [x |-> [distort.x EXCEPT !.m_seed = seed],
     y |-> [distort.y EXCEPT !.m_seed = Add32(seed, 1)],
     z |-> [distort.z EXCEPT !.m_seed = Add32(seed, 2)]]

\* Turbulence::SetFrequency
TurbulenceSetFrequency(distort, frequency) ==
    [a \in {"x", "y", "z"} |-> [distort[a] EXCEPT !.m_frequency = frequency]]

\* A SetRoughness whose x module accepts any count while y and z check it.
TurbulenceSetRoughnessUnchecked(distort, roughness) ==
    LET x == [distort.x EXCEPT !.m_octaveCount = roughness]
        y == PerlinSetOctaveCount(distort.y, roughness)
    IN  IF y.throws THEN [throws |-> TRUE, distort |-> [distort EXCEPT !.x = x]]
        ELSE [throws |-> FALSE,
              distort |-> [distort EXCEPT !.x = x, !.y = y.perlin,
                                          !.z = PerlinSetOctaveCount(distort.z, roughness).perlin]]

\* Turbulence::SetRoughness: SetOctaveCount on x, then y, then z; the first
\* call that throws ends the setter.
TurbulenceSetRoughness(distort, roughness) ==
    LET x == PerlinSetOctaveCount(distort.x, roughness)
        y == PerlinSetOctaveCount(distort.y, roughness)
        z == PerlinSetOctaveCount(distort.z, roughness)
    IN  IF x.throws THEN [throws |-> TRUE, distort |-> distort]
        ELSE IF y.throws THEN [throws |-> TRUE, distort |-> [distort EXCEPT !.x = x.perlin]]
        ELSE IF z.throws
             THEN [throws |-> TRUE, distort |-> [distort EXCEPT !.x = x.perlin, !.y = y.perlin]]
        ELSE [throws |-> FALSE,
              distort |-> [x |-> x.perlin, y |-> y.perlin, z |-> z.perlin]]

\* Turbulence::Turbulence: three Perlin members, then SetSeed, SetFrequency
\* and SetRoughness with the defaults.
TurbulenceCtor ==
    TurbulenceSetRoughness(
        TurbulenceSetFrequency(
            TurbulenceSetSeed([a \in {"x", "y", "z"} |-> PerlinCtor], DEFAULT_TURBULENCE_SEED),
            DEFAULT_TURBULENCE_FREQUENCY),
        DEFAULT_TURBULENCE_ROUGHNESS).distort

DEFAULT_RIDGED_FREQUENCY == D(1, 0)

DEFAULT_RIDGED_LACUNARITY == D(2, 0)

DEFAULT_RIDGED_SEED == 0

\* NoiseQuality::QUALITY_STD, the DEFAULT_RIDGED_QUALITY
DEFAULT_RIDGED_QUALITY == "QUALITY_STD"

\* std::pow(frequency, -h) with h = 1.0: the reciprocal, rounded once
PowMinusH(frequency) == DDiv(D(1, 0), frequency)

\* The loop of CalcSpectralWeights: the entries stored so far and the value of
\* the local variable frequency.
RECURSIVE SpectralWeightsFrom(_, _, _)
SpectralWeightsFrom(weights, frequency, lacunarity) ==
    IF Len(weights) >= RIDGED_MAX_OCTAVE THEN weights
    ELSE SpectralWeightsFrom(Append(weights, PowMinusH(frequency)),
                             DMul(frequency, lacunarity), lacunarity)

\* RidgedMulti::CalcSpectralWeights: the array m_pSpectralWeights, indexed
\* from 0.
CalcSpectralWeights(lacunarity) ==
    LET weights == SpectralWeightsFrom(<<>>, D(1, 0), lacunarity)
    IN  [i \in 0..(RIDGED_MAX_OCTAVE - 1) |-> weights[i + 1]]

\* RidgedMulti::RidgedMulti
RidgedMultiCtor ==
    [m_frequency |-> DEFAULT_RIDGED_FREQUENCY,
     m_lacunarity |-> DEFAULT_RIDGED_LACUNARITY,
     m_noiseQuality |-> DEFAULT_RIDGED_QUALITY,
     m_seed |-> DEFAULT_RIDGED_SEED,
     m_pSpectralWeights |-> CalcSpectralWeights(DEFAULT_RIDGED_LACUNARITY)]

\* The TranslatePoint objects: outer wraps inner, inner and single wrap the
\* same source module.
TranslateModules == {"outer", "inner", "single"}

\* DEFAULT_TRANSLATE_POINT_X, DEFAULT_TRANSLATE_POINT_Y, DEFAULT_TRANSLATE_POINT_Z
DEFAULT_TRANSLATE_POINT == DZero

\* TranslatePoint::TranslatePoint
TranslatePointCtor ==
    <<DEFAULT_TRANSLATE_POINT, DEFAULT_TRANSLATE_POINT, DEFAULT_TRANSLATE_POINT>>

\* Turbulence::Turbulence, RidgedMulti::RidgedMulti, TranslatePoint::TranslatePoint
GeneratorsConstructed ==
    /\ m_distortModule = TurbulenceCtor
    /\ m_ridged = RidgedMultiCtor
    /\ m_translation = [m \in TranslateModules |-> TranslatePointCtor]

\* No thread has started.
SetterIdle == [pc |-> "idle", lowerBound |-> nullptr, upperBound |-> nullptr, pre |-> nullptr]

ReaderIdle ==
    [pc |-> "idle", controlValue |-> nullptr, at |-> nullptr, edgeFalloff |-> nullptr,
     lowerBound |-> nullptr, upperBound |-> nullptr, overlapped |-> FALSE,
     branch |-> nullptr]

BuildIdle ==
    [pc |-> "idle", destWidth |-> 0, destHeight |-> 0, callback |-> FALSE,
     workers |-> <<>>, written |-> <<>>, writers |-> <<>>, callbacks |-> <<>>]

ThreadsIdle ==
    /\ setter = SetterIdle
    /\ reader = ReaderIdle
    /\ build = BuildIdle

NoCall == [op |-> "none", m |-> nullptr, args |-> <<>>, err |-> "ok", ret |-> nullptr]

Threads == {1, 2}

Constructed ==
    /\ m_sourceModules = [m \in Modules |-> ModuleCtor(Count(m))]
    /\ m_octaveCount = [m \in OctaveModules |-> DefaultOctaveCount(KindOf[m])]
    /\ m_lowerBound = [m \in BoundsModules |-> DEFAULT_LOWER_BOUND]
    /\ m_upperBound = [m \in BoundsModules |-> DEFAULT_UPPER_BOUND]
    /\ m_edgeFalloff = DEFAULT_SELECT_EDGE_FALLOFF
    /\ m_constValue = DEFAULT_CONST_VALUE
    /\ aborted = FALSE
    /\ last = NoCall
    /\ bound = [m \in Modules |-> [i \in 0..(Count(m) - 1) |-> nullptr]]
    /\ stack = [t \in Threads |-> <<>>]
    /\ locals = <<>>
    /\ done = [t \in Threads |-> <<>>]
    /\ TablesConstructed
    /\ GeneratorsConstructed
    /\ ThreadsIdle

Init == Constructed

\* ------------------------------------------------------------------------
\* Module: child slots (index is the C++ index, 0-based)
\* ------------------------------------------------------------------------
Called(op, m, args, err, ret) ==
    last' = [op |-> op, m |-> m, args |-> args, err |-> err, ret |-> ret]

CanCall == ~aborted

\* The model builds graphs of at most MaxBound bound slots.
BoundSlots(sm) == {<<m, i>> \in Modules \X (1..4) : i <= Len(sm[m]) /\ sm[m][i] # nullptr}

WithinBound == Cardinality(BoundSlots(m_sourceModules')) <= MaxBound

\* A store that ignores the index and always writes the first slot.
StoreSourceSlotZero(m, index, sourceModule) ==
    [m_sourceModules EXCEPT ![m][1] = sourceModule]

\* m_sourceModules[index] = &sourceModule
StoreSource(m, index, sourceModule) ==
    [m_sourceModules EXCEPT ![m][index + 1] = sourceModule]

Record(m, index, sourceModule) == [bound EXCEPT ![m][index] = sourceModule]

\* A range check that is off by one at the upper end.
InvalidIndexOffByOne(m, index) == index > Count(m) \/ index < 0

\* The range check of SetSourceModule.
InvalidIndex(m, index) == index >= Count(m) \/ index < 0

\* Module::SetSourceModule(index, sourceModule)
SetSourceModule(m, index, sourceModule) ==
    /\ CanCall
    /\ IF InvalidIndex(m, index)
       THEN /\ Called("SetSourceModule", m, <<index, sourceModule>>,
                      "ExceptionInvalidParam", nullptr)
            /\ UNCHANGED <<m_sourceModules, bound>>
       ELSE /\ m_sourceModules' = StoreSource(m, index, sourceModule)
            /\ bound' = Record(m, index, sourceModule)
            /\ Called("SetSourceModule", m, <<index, sourceModule>>, "ok", nullptr)
            /\ WithinBound
    /\ UNCHANGED <<m_octaveCount, m_lowerBound, m_upperBound, m_edgeFalloff,
                   m_constValue, aborted, evalState, tableState, generatorState>>

\* Module::GetSourceModule(index)
GetSourceModule(m, index) ==
    /\ CanCall
    /\ IF \/ index >= Count(m)
          \/ index < 0
          \/ m_sourceModules[m][index + 1] = nullptr
       THEN Called("GetSourceModule", m, <<index>>, "ExceptionNoModule", nullptr)
       ELSE Called("GetSourceModule", m, <<index>>, "ok", m_sourceModules[m][index + 1])
    /\ UNCHANGED <<moduleState, aborted, bound, evalState>>

\* Select::GetControlModule()
GetControlModule(m) ==
    /\ CanCall
    /\ KindOf[m] = "Select"
    /\ IF m_sourceModules[m][2 + 1] = nullptr
       THEN Called("GetControlModule", m, <<>>, "ExceptionNoModule", nullptr)
       ELSE Called("GetControlModule", m, <<>>, "ok", m_sourceModules[m][2 + 1])
    /\ UNCHANGED <<moduleState, aborted, bound, evalState>>

\* Blend::SetControlModule, Select::SetControlModule
SetControlModule(m, controlModule) ==
    /\ CanCall
    /\ KindOf[m] \in {"Blend", "Select"}
    /\ m_sourceModules' = StoreSource(m, 2, controlModule)
    /\ bound' = Record(m, 2, controlModule)
    /\ Called("SetControlModule", m, <<controlModule>>, "ok", nullptr)
    /\ WithinBound
    /\ UNCHANGED <<m_octaveCount, m_lowerBound, m_upperBound, m_edgeFalloff,
                   m_constValue, aborted, evalState, tableState, generatorState>>

\* Displace::SetXDisplaceModule (slot 1), SetYDisplaceModule (slot 2),
\* SetZDisplaceModule (slot 3)
SetAxisDisplaceModule(m, slot, displaceModule) ==
    /\ CanCall
    /\ KindOf[m] = "Displace"
    /\ m_sourceModules' = StoreSource(m, slot, displaceModule)
    /\ bound' = Record(m, slot, displaceModule)
    /\ Called("SetAxisDisplaceModule", m, <<slot, displaceModule>>, "ok", nullptr)
    /\ WithinBound
    /\ UNCHANGED <<m_octaveCount, m_lowerBound, m_upperBound, m_edgeFalloff,
                   m_constValue, aborted, evalState, tableState, generatorState>>

\* Displace::SetDisplaceModules(x, y, z)
SetDisplaceModules(m, xDisplaceModule, yDisplaceModule, zDisplaceModule) ==
    /\ CanCall
    /\ KindOf[m] = "Displace"
    /\ m_sourceModules' =
          [m_sourceModules EXCEPT ![m][1 + 1] = xDisplaceModule,
                                  ![m][2 + 1] = yDisplaceModule,
                                  ![m][3 + 1] = zDisplaceModule]
    /\ bound' = [bound EXCEPT ![m][1] = xDisplaceModule,
                              ![m][2] = yDisplaceModule,
                              ![m][3] = zDisplaceModule]
    /\ Called("SetDisplaceModules", m,
              <<xDisplaceModule, yDisplaceModule, zDisplaceModule>>, "ok", nullptr)
    /\ WithinBound
    /\ UNCHANGED <<m_octaveCount, m_lowerBound, m_upperBound, m_edgeFalloff,
                   m_constValue, aborted, evalState, tableState, generatorState>>

\* ------------------------------------------------------------------------
\* Pure functions used by GetValue
\* ------------------------------------------------------------------------
\* interp.h: LinearInterp(n0, n1, a) = (1 - a) * n0 + a * n1
LinearInterp(n0, n1, a) == QAdd(QMul(QSub(Q(1), a), n0), QMul(a, n1))

\* A Blend that uses the control value as the weight without rescaling it.
BlendGetValueRawAlpha(v0, v1, v2) == LinearInterp(v0, v1, v2)

\* Blend::GetValue on the values v0, v1, v2 its three children return
BlendGetValue(v0, v1, v2) ==
    LET alpha == QDiv(QAdd(v2, Q(1)), Q(2))
    IN  LinearInterp(v0, v1, alpha)

\* interp.h: SCurve3(a) = a * a * (3 - 2 * a)
SCurve3(a) == QMul(QMul(a, a), QSub(Q(3), QMul(Q(2), a)))

\* std::clamp(v, lo, hi) = (v < lo) ? lo : (hi < v) ? hi : v
StdClamp(v, lo, hi) == IF QLt(v, lo) THEN lo ELSE IF QLt(hi, v) THEN hi ELSE v

\* Integers of the model checker are 32 bits wide: the operators below keep
\* every intermediate value within the size of their arguments.
QTrunc(a) == IF a[1] >= 0 THEN a[1] \div a[2] ELSE -((-a[1]) \div a[2])

QCeil(a) == -((-a[1]) \div a[2])

QDouble(a) == IF a[2] % 2 = 0 THEN Norm(a[1], a[2] \div 2) ELSE <<2 * a[1], a[2]>>

\* The remainder of the C++ operator %: it has the sign of the dividend.
Rem(n, d) == IF n >= 0 THEN n % d ELSE -((-n) % d)

\* std::fmod(n, d) for an integral d: n - d * trunc(n / d), which is the
\* remainder of the integral part of n plus the fractional part of n.
Fmod(n, d) ==
    LET w == QTrunc(n)
    IN  QAdd(Q(Rem(w, d)), QSub(n, Q(w)))

TwoPow30 == 1073741824

\* A folding that returns every n as it is.
MakeInt32RangeUnfolded(n) == n

\* noisegen.h: MakeInt32Range(n)
MakeInt32Range(n) ==
    IF QFloor(n) >= TwoPow30
    THEN QSub(QDouble(Fmod(n, TwoPow30)), Q(TwoPow30))
    ELSE IF QCeil(n) <= -TwoPow30
         THEN QAdd(QDouble(Fmod(n, TwoPow30)), Q(TwoPow30))
         ELSE n

\* A checkerboard of slabs: only the x coordinate decides the colour.
CheckerboardValueSlabs(p) ==
    IF QFloor(MakeInt32Range(p[1])) % 2 = 1 THEN Q(-1) ELSE Q(1)

\* Checkerboard::GetValue(x, y, z)
CheckerboardValue(p) ==
    LET ix == QFloor(MakeInt32Range(p[1]))
        iy == QFloor(MakeInt32Range(p[2]))
        iz == QFloor(MakeInt32Range(p[3]))
    IN  IF ((ix % 2) + (iy % 2) + (iz % 2)) % 2 = 1 THEN Q(-1) ELSE Q(1)

\* A selection whose no-falloff test takes the bounds themselves as outside.
SelectBranchBoundsOutside(controlValue, lower, upper, edge) ==
    IF QGt(edge, Q(0))
    THEN IF QLt(controlValue, QSub(lower, edge)) THEN "source0"
         ELSE IF QLt(controlValue, QAdd(lower, edge)) THEN "blendLower"
         ELSE IF QLt(controlValue, QSub(upper, edge)) THEN "source1"
         ELSE IF QLt(controlValue, QAdd(upper, edge)) THEN "blendUpper"
         ELSE "source0"
    ELSE IF QLe(controlValue, lower) \/ QLe(upper, controlValue) THEN "source0"
         ELSE "source1"

\* The branch Select::GetValue takes for a control value.
SelectBranch(controlValue, lower, upper, edge) ==
    IF QGt(edge, Q(0))
    THEN IF QLt(controlValue, QSub(lower, edge)) THEN "source0"
         ELSE IF QLt(controlValue, QAdd(lower, edge)) THEN "blendLower"
         ELSE IF QLt(controlValue, QSub(upper, edge)) THEN "source1"
         ELSE IF QLt(controlValue, QAdd(upper, edge)) THEN "blendUpper"
         ELSE "source0"
    ELSE IF QLt(controlValue, lower) \/ QGt(controlValue, upper) THEN "source0"
         ELSE "source1"

\* An alpha measured from the bound instead of from the start of the curve.
SelectAlphaFromBound(controlValue, bnd, edge) ==
    SCurve3(QDiv(QSub(controlValue, bnd), QSub(QAdd(bnd, edge), QSub(bnd, edge))))

\* alpha of the blend around a bound: SCurve3((c - lowerCurve) / (upperCurve - lowerCurve))
SelectAlpha(controlValue, bnd, edge) ==
    LET lowerCurve == QSub(bnd, edge)
        upperCurve == QAdd(bnd, edge)
    IN  SCurve3(QDiv(QSub(controlValue, lowerCurve), QSub(upperCurve, lowerCurve)))

Source(m, index) == m_sourceModules[m][index + 1]

EvalKinds == {"Const", "Checkerboard", "Clamp", "Add", "Blend", "Select", "Displace"}

\* GetValue run to completion by one thread: the value the call returns.
RECURSIVE GetValue(_, _)
GetValue(m, p) ==
    CASE KindOf[m] = "Const" -> m_constValue
      [] KindOf[m] = "Checkerboard" -> CheckerboardValue(p)
      [] KindOf[m] = "Clamp" ->
            StdClamp(GetValue(Source(m, 0), p), m_lowerBound[m], m_upperBound[m])
      [] KindOf[m] = "Add" ->
            QAdd(GetValue(Source(m, 0), p), GetValue(Source(m, 1), p))
      [] KindOf[m] = "Blend" ->
            BlendGetValue(GetValue(Source(m, 0), p), GetValue(Source(m, 1), p),
                          GetValue(Source(m, 2), p))
      [] KindOf[m] = "Select" ->
            LET controlValue == GetValue(Source(m, 2), p)
                branch == SelectBranch(controlValue, m_lowerBound[m],
                                       m_upperBound[m], m_edgeFalloff)
            IN  (CASE branch = "source0" -> GetValue(Source(m, 0), p)
                   [] branch = "source1" -> GetValue(Source(m, 1), p)
                   [] branch = "blendLower" ->
                         LinearInterp(GetValue(Source(m, 0), p), GetValue(Source(m, 1), p),
                                      SelectAlpha(controlValue, m_lowerBound[m], m_edgeFalloff))
                   [] branch = "blendUpper" ->
                         LinearInterp(GetValue(Source(m, 1), p), GetValue(Source(m, 0), p),
                                      SelectAlpha(controlValue, m_upperBound[m], m_edgeFalloff)))
      [] KindOf[m] = "Displace" ->
            LET xDisplace == GetValue(Source(m, 1), p)
                yDisplace == GetValue(Source(m, 2), p)
                zDisplace == GetValue(Source(m, 3), p)
            IN  GetValue(Source(m, 0),
                         <<QAdd(p[1], xDisplace), QAdd(p[2], yDisplace),
                           QAdd(p[3], zDisplace)>>)

\* The modules a GetValue on m can reach through bound slots.
RECURSIVE Reach(_, _)
Reach(front, seen) ==
    LET next == {c \in Modules : \E m \in front : \E i \in 1..Len(m_sourceModules[m]) :
                    m_sourceModules[m][i] = c} \ seen
    IN  IF next = {} THEN seen ELSE Reach(next, seen \cup next)

Below(m) == Reach({m}, {})

\* The precondition of GetValue: every slot below m is bound, no module is its
\* own descendant, and every module reached is of a kind the model evaluates.
Evaluable(m) ==
    /\ m \notin Below(m)
    /\ \A d \in Below(m) \cup {m} :
          /\ KindOf[d] \in EvalKinds
          /\ d \notin Below(d)
          /\ \A i \in 1..Len(m_sourceModules[d]) : m_sourceModules[d][i] # nullptr

\* The arguments the calls of the model are made with.
Indices(m) == (-1)..Count(m)

GraphModules == {"const", "clamp", "add", "select", "displace"}

SourceArgs == {"const", "select"}

NextGraph ==
    \/ \E m \in GraphModules, s \in SourceArgs :
          \E index \in Indices(m) : SetSourceModule(m, index, s)
    \/ \E m \in GraphModules : \E index \in Indices(m) : GetSourceModule(m, index)
    \/ \E m \in GraphModules : GetControlModule(m)
    \/ \E m \in GraphModules, s \in SourceArgs : SetControlModule(m, s)
    \/ \E m \in GraphModules, slot \in 1..3, s \in SourceArgs :
          SetAxisDisplaceModule(m, slot, s)
    \/ \E m \in GraphModules, x, y, z \in SourceArgs : SetDisplaceModules(m, x, y, z)

SpecGraph == Init /\ [][NextGraph]_vars

\* ------------------------------------------------------------------------
\* Perlin, Billow, RidgedMulti: SetOctaveCount
\* ------------------------------------------------------------------------
\* Perlin::SetOctaveCount, Billow::SetOctaveCount, RidgedMulti::SetOctaveCount
SetOctaveCount(m, octaveCount) ==
    /\ CanCall
    /\ m \in OctaveModules
    /\ IF OctaveCountInvalid(KindOf[m], octaveCount)
       THEN /\ Called("SetOctaveCount", m, <<octaveCount>>, "ExceptionInvalidParam", nullptr)
            /\ UNCHANGED m_octaveCount
       ELSE /\ m_octaveCount' = [m_octaveCount EXCEPT ![m] = octaveCount]
            /\ Called("SetOctaveCount", m, <<octaveCount>>, "ok", nullptr)
    /\ UNCHANGED <<m_sourceModules, m_lowerBound, m_upperBound, m_edgeFalloff,
                   m_constValue, aborted, bound, evalState, tableState, generatorState>>

OctaveArgs == {-1, 0, 1, 6, 29, 30, 31, 32}

NextOctave == \E m \in OctaveModules, n \in OctaveArgs : SetOctaveCount(m, n)

SpecOctave == Init /\ [][NextOctave]_vars

\* ------------------------------------------------------------------------
\* Const and Clamp
\* ------------------------------------------------------------------------
\* Const::SetConstValue(constValue)
SetConstValue(m, constValue) ==
    /\ CanCall
    /\ KindOf[m] = "Const"
    /\ m_constValue' = constValue
    /\ Called("SetConstValue", m, <<constValue>>, "ok", nullptr)
    /\ UNCHANGED <<m_sourceModules, m_octaveCount, m_lowerBound, m_upperBound,
                   m_edgeFalloff, aborted, bound, evalState, tableState, generatorState>>

\* A check with the comparison the wrong way round.
ClampBoundsInvalidReversed(lowerBound, upperBound) == QLt(lowerBound, upperBound)

\* The argument check of Clamp::SetBounds: lowerBound > upperBound.
ClampBoundsInvalid(lowerBound, upperBound) == QGt(lowerBound, upperBound)

\* Clamp::SetBounds(lowerBound, upperBound)
ClampSetBounds(m, lowerBound, upperBound) ==
    /\ CanCall
    /\ KindOf[m] = "Clamp"
    /\ IF ClampBoundsInvalid(lowerBound, upperBound)
       THEN /\ Called("SetBounds", m, <<lowerBound, upperBound>>,
                      "ExceptionInvalidParam", nullptr)
            /\ UNCHANGED <<m_lowerBound, m_upperBound>>
       ELSE /\ m_lowerBound' = [m_lowerBound EXCEPT ![m] = lowerBound]
            /\ m_upperBound' = [m_upperBound EXCEPT ![m] = upperBound]
            /\ Called("SetBounds", m, <<lowerBound, upperBound>>, "ok", nullptr)
    /\ UNCHANGED <<m_sourceModules, m_octaveCount, m_edgeFalloff, m_constValue,
                   aborted, bound, evalState, tableState, generatorState>>

\* A call of GetValue(x, y, z) made by the only thread of the program.  With
\* an unbound slot below m the assert fails (or the null pointer is
\* dereferenced), with a cycle the recursion exhausts the stack: the process
\* ends.
GetValueCall(m, p) ==
    /\ CanCall
    /\ \A d \in Below(m) \cup {m} : KindOf[d] \in EvalKinds
    /\ IF Evaluable(m)
       THEN /\ Called("GetValue", m, <<p>>, "ok", GetValue(m, p))
            /\ UNCHANGED aborted
       ELSE /\ Called("GetValue", m, <<p>>, "abort", nullptr)
            /\ aborted' = TRUE
    /\ UNCHANGED <<moduleState, bound, evalState>>

Values == {Q(-2), <<-1, 2>>, Q(0), Q(1), Q(2)}

BoundArgs == {Q(-1), Q(0), Q(1)}

Points == {<<Q(1), Q(0), Q(0)>>, <<<<1, 2>>, <<3, 2>>, Q(-1)>>}

NextClamp ==
    \/ \E lo \in BoundArgs, hi \in BoundArgs : ClampSetBounds("clamp", lo, hi)
    \/ \E v \in Values : SetConstValue("const", v)
    \/ SetSourceModule("clamp", 0, "const")
    \/ \E p \in Points : GetValueCall("clamp", p)

SpecClamp == Init /\ [][NextClamp]_vars

\* ------------------------------------------------------------------------
\* Select: SetBounds and SetEdgeFalloff
\* ------------------------------------------------------------------------
\* A clamp against the whole range instead of half of it.
ClampedFalloffWholeRange(edgeFalloff, lowerBound, upperBound) ==
    LET boundSize == QSub(upperBound, lowerBound)
    IN  IF QGt(edgeFalloff, boundSize) THEN boundSize ELSE edgeFalloff

\* The value Select::SetEdgeFalloff stores:
\* (edgeFalloff > boundSize / 2) ? boundSize / 2 : edgeFalloff
ClampedFalloff(edgeFalloff, lowerBound, upperBound) ==
    LET boundSize == QSub(upperBound, lowerBound)
    IN  IF QGt(edgeFalloff, QDiv(boundSize, Q(2)))
        THEN QDiv(boundSize, Q(2))
        ELSE edgeFalloff

\* Select::SetEdgeFalloff(edgeFalloff)
SetEdgeFalloff(m, edgeFalloff) ==
    /\ CanCall
    /\ KindOf[m] = "Select"
    /\ m_edgeFalloff' = ClampedFalloff(edgeFalloff, m_lowerBound[m], m_upperBound[m])
    /\ Called("SetEdgeFalloff", m, <<edgeFalloff>>, "ok", nullptr)
    /\ UNCHANGED <<m_sourceModules, m_octaveCount, m_lowerBound, m_upperBound,
                   m_constValue, aborted, bound, evalState, tableState, generatorState>>

\* Select::SetBounds(lowerBound, upperBound).  The only check is
\* assert(lowerBound < upperBound): a build with assertions ends the process
\* when it fails, a build with NDEBUG goes on to the assignments.
SelectSetBounds(m, lowerBound, upperBound) ==
    /\ CanCall
    /\ KindOf[m] = "Select"
    /\ \/ /\ ~QLt(lowerBound, upperBound)
          /\ aborted' = TRUE
          /\ Called("SetBounds", m, <<lowerBound, upperBound>>, "abort", nullptr)
          /\ UNCHANGED <<m_lowerBound, m_upperBound, m_edgeFalloff>>
       \/ /\ m_lowerBound' = [m_lowerBound EXCEPT ![m] = lowerBound]
          /\ m_upperBound' = [m_upperBound EXCEPT ![m] = upperBound]
          /\ m_edgeFalloff' = ClampedFalloff(m_edgeFalloff, lowerBound, upperBound)
          /\ Called("SetBounds", m, <<lowerBound, upperBound>>, "ok", nullptr)
          /\ UNCHANGED aborted
    /\ UNCHANGED <<m_sourceModules, m_octaveCount, m_constValue, bound, evalState, tableState, generatorState>>

SelectBoundArgs == {Q(-1), Q(0), Q(1), Q(2)}

FalloffArgs == {Q(-1), Q(0), <<1, 4>>, Q(1), Q(3)}

NextSelect ==
    \/ \E lo \in SelectBoundArgs, hi \in SelectBoundArgs : SelectSetBounds("select", lo, hi)
    \/ \E e \in FalloffArgs : SetEdgeFalloff("select", e)

SpecSelect == Init /\ [][NextSelect]_vars

\* ------------------------------------------------------------------------
\* GetValue step by step: each thread runs its own chain of activations
\* ------------------------------------------------------------------------
NoVals == [i \in {} |-> Q(0)]

Get(store, key) == IF key \in DOMAIN store THEN store[key] ELSE NoVals

Put(store, key, vals) ==
    [k \in DOMAIN store \cup {key} |-> IF k = key THEN vals ELSE store[k]]

Drop(store, key) == [k \in DOMAIN store \ {key} |-> store[k]]

\* Locals with static storage duration: one copy per function, whatever the
\* thread.
LocalKeyStatic(t, depth, m) == <<0, m>>

\* Where the locals of an activation live: GetValue declares them with
\* automatic storage, so each activation of each thread has its own copy.
LocalKey(t, depth, m) == <<t, depth>>

Shift(p, dx, dy, dz) == <<QAdd(p[1], dx), QAdd(p[2], dy), QAdd(p[3], dz)>>

Missing(slots, vals) == slots \ DOMAIN vals

\* The child calls an activation of m at point p can make next, given the
\* child values it has so far: pairs <<slot, point>>.
Pending(m, p, vals) ==
    CASE KindOf[m] \in {"Const", "Checkerboard"} -> {}
      [] KindOf[m] = "Clamp" -> {<<i, p>> : i \in Missing({0}, vals)}
      [] KindOf[m] = "Add" -> {<<i, p>> : i \in Missing({0, 1}, vals)}
      [] KindOf[m] = "Blend" ->
            IF 0 \notin DOMAIN vals THEN {<<0, p>>}
            ELSE IF 1 \notin DOMAIN vals THEN {<<1, p>>}
            ELSE {<<i, p>> : i \in Missing({2}, vals)}
      [] KindOf[m] = "Select" ->
            IF 2 \notin DOMAIN vals THEN {<<2, p>>}
            ELSE LET branch == SelectBranch(vals[2], m_lowerBound[m],
                                            m_upperBound[m], m_edgeFalloff)
                 IN  (CASE branch = "source0" -> {<<i, p>> : i \in Missing({0}, vals)}
                        [] branch = "source1" -> {<<i, p>> : i \in Missing({1}, vals)}
                        [] OTHER -> {<<i, p>> : i \in Missing({0, 1}, vals)})
      [] KindOf[m] = "Displace" ->
            IF 1 \notin DOMAIN vals THEN {<<1, p>>}
            ELSE IF 2 \notin DOMAIN vals THEN {<<2, p>>}
            ELSE IF 3 \notin DOMAIN vals THEN {<<3, p>>}
            ELSE IF 0 \notin DOMAIN vals
                 THEN {<<0, Shift(p, vals[1], vals[2], vals[3])>>}
                 ELSE {}

\* The value an activation returns once it has no child call left to make.
Result(m, p, vals) ==
    CASE KindOf[m] = "Const" -> m_constValue
      [] KindOf[m] = "Checkerboard" -> CheckerboardValue(p)
      [] KindOf[m] = "Clamp" -> StdClamp(vals[0], m_lowerBound[m], m_upperBound[m])
      [] KindOf[m] = "Add" -> QAdd(vals[0], vals[1])
      [] KindOf[m] = "Blend" ->
            LinearInterp(vals[0], vals[1], QDiv(QAdd(vals[2], Q(1)), Q(2)))
      [] KindOf[m] = "Select" ->
            LET branch == SelectBranch(vals[2], m_lowerBound[m], m_upperBound[m],
                                       m_edgeFalloff)
            IN  (CASE branch = "source0" -> vals[0]
                   [] branch = "source1" -> vals[1]
                   [] branch = "blendLower" ->
                         LinearInterp(vals[0], vals[1],
                                      SelectAlpha(vals[2], m_lowerBound[m], m_edgeFalloff))
                   [] branch = "blendUpper" ->
                         LinearInterp(vals[1], vals[0],
                                      SelectAlpha(vals[2], m_upperBound[m], m_edgeFalloff)))
      [] KindOf[m] = "Displace" -> vals[0]

Top(t) == stack[t][Len(stack[t])]

TopVals(t) == Get(locals, LocalKey(t, Len(stack[t]), Top(t).m))

Started == Len(done[1]) + Len(done[2]) + Cardinality({t \in Threads : stack[t] # <<>>})

\* A Select::GetValue whose test of the falloff is an assignment,
\* if (m_edgeFalloff = 0.0), instead of a comparison.
GetValueWritesFalloff(m) ==
    /\ m_edgeFalloff' = IF KindOf[m] = "Select" THEN Q(0) ELSE m_edgeFalloff
    /\ UNCHANGED <<m_sourceModules, m_octaveCount, m_lowerBound, m_upperBound,
                   m_constValue, tableState, generatorState>>

\* The writes GetValue makes to the module it runs on: none, every GetValue
\* is a const method and no field is mutable.
GetValueWrites(m) == UNCHANGED moduleState

\* A thread calls GetValue(p) on the root module m of a graph.
StartEval(t, m, p) ==
    /\ ~aborted
    /\ stack[t] = <<>>
    /\ Started < MaxEvals
    /\ Evaluable(m)
    /\ stack' = [stack EXCEPT ![t] = <<[m |-> m, p |-> p, slot |-> -1]>>]
    /\ locals' = Put(locals, LocalKey(t, 1, m), NoVals)
    /\ GetValueWrites(m)
    /\ UNCHANGED <<aborted, last, bound, done, threadState>>

\* The running activation of thread t calls GetValue on one of its children.
Call(t) ==
    /\ stack[t] # <<>>
    /\ \E c \in Pending(Top(t).m, Top(t).p, TopVals(t)) :
          LET child == Source(Top(t).m, c[1])
          IN  /\ stack' = [stack EXCEPT ![t] =
                             Append(@, [m |-> child, p |-> c[2], slot |-> c[1]])]
              /\ locals' = Put(locals, LocalKey(t, Len(stack[t]) + 1, child), NoVals)
              /\ GetValueWrites(child)
    /\ UNCHANGED <<aborted, last, bound, done, threadState>>

\* The running activation of thread t returns: to its caller's local
\* variable, or, for the root, to the thread that started the evaluation.
Return(t) ==
    /\ stack[t] # <<>>
    /\ Pending(Top(t).m, Top(t).p, TopVals(t)) = {}
    /\ LET d == Len(stack[t])
           a == Top(t)
           v == Result(a.m, a.p, TopVals(t))
           freed == Drop(locals, LocalKey(t, d, a.m))
       IN  /\ stack' = [stack EXCEPT ![t] = SubSeq(@, 1, d - 1)]
           /\ IF d = 1
              THEN /\ done' = [done EXCEPT ![t] = Append(@,
                                 [m |-> a.m, p |-> a.p, val |-> v,
                                  conc |-> \E u \in Threads \ {t} : stack[u] # <<>>])]
                   /\ locals' = freed
              ELSE /\ locals' =
                         LET key == LocalKey(t, d - 1, stack[t][d - 1].m)
                         IN  Put(freed, key, Get(freed, key) @@ (a.slot :> v))
                   /\ UNCHANGED done
    /\ UNCHANGED <<moduleState, aborted, last, bound, threadState>>

\* The graphs and parameters the evaluations run on: states that binds and
\* setters reach from the constructed state.
EvalWiring ==
    {[const |-> <<>>, checker |-> <<>>, perlin |-> <<>>, billow |-> <<>>,
      ridged |-> <<>>, clamp |-> <<c>>, add |-> <<"checker", a>>,
      blend |-> <<"const", "add", "clamp">>, select |-> <<s0, "checker", s2>>,
      displace |-> <<d0, "checker", "const", "clamp">>] :
        c \in {"checker"}, a \in {"clamp"}, s0 \in {"add"},
        s2 \in {"checker", "clamp"}, d0 \in {"select"}}

EvalSelectParams == {<<Q(0), Q(1), Q(0)>>, <<Q(0), Q(2), <<1, 2>>>>}

EvalClampParams == {<<Q(0), <<1, 2>>>>}

EvalRoots == {"displace", "blend"}

InitEval ==
    /\ m_sourceModules \in EvalWiring
    /\ m_octaveCount = [m \in OctaveModules |-> DefaultOctaveCount(KindOf[m])]
    /\ \E cp \in EvalClampParams, sp \in EvalSelectParams :
          /\ m_lowerBound = [clamp |-> cp[1], select |-> sp[1]]
          /\ m_upperBound = [clamp |-> cp[2], select |-> sp[2]]
          /\ m_edgeFalloff = sp[3]
    /\ m_constValue \in {<<1, 2>>}
    /\ aborted = FALSE
    /\ last = NoCall
    /\ bound = [m \in Modules |-> [i \in 0..(Count(m) - 1) |-> m_sourceModules[m][i + 1]]]
    /\ stack = [t \in Threads |-> <<>>]
    /\ locals = <<>>
    /\ done = [t \in Threads |-> <<>>]
    /\ TablesConstructed
    /\ GeneratorsConstructed
    /\ ThreadsIdle

NextEval ==
    \/ \E t \in Threads, m \in EvalRoots, p \in Points : StartEval(t, m, p)
    \/ \E t \in Threads : Call(t)
    \/ \E t \in Threads : Return(t)

SpecEval == InitEval /\ [][NextEval]_vars

\* ------------------------------------------------------------------------
\* Claims about the child slots
\* ------------------------------------------------------------------------
SlotsOf(m) == {i \in 1..Len(m_sourceModules[m]) : m_sourceModules[m][i] # nullptr}

\* C1: SetSourceModule(index, child) with index < 0 or index >=
\* GetSourceModuleCount() fails with ExceptionInvalidParam and leaves every
\* child slot of the module as it was before the call.
C1_OutOfRangeBindRejected ==
    [][(/\ last'.op = "SetSourceModule"
        /\ (last'.args[1] < 0 \/ last'.args[1] >= Count(last'.m)))
       => (/\ last'.err = "ExceptionInvalidParam"
           /\ m_sourceModules' = m_sourceModules)]_vars

\* A bind with an out-of-range index was rejected on a module that already
\* has a bound slot.
C1_Witness ==
    /\ last.op = "SetSourceModule"
    /\ last.err = "ExceptionInvalidParam"
    /\ last.args[1] = Count(last.m)
    /\ SlotsOf(last.m) # {}

\* C2: GetSourceModule(index) fails with ExceptionNoModule exactly when index
\* is outside [0, arity) or no module was ever bound to the slot; otherwise it
\* returns the module most recently bound to that slot, whatever was bound to
\* the other slots.
C2_GetReturnsLastBound ==
    last.op = "GetSourceModule" =>
        LET m == last.m
            index == last.args[1]
        IN  IF index < 0 \/ index >= Count(m)
            THEN last.err = "ExceptionNoModule"
            ELSE IF bound[m][index] = nullptr
                 THEN last.err = "ExceptionNoModule"
                 ELSE last.err = "ok" /\ last.ret = bound[m][index]

\* A slot was read back while another slot of the same module holds a
\* different module.
C2_Witness ==
    /\ last.op = "GetSourceModule"
    /\ last.err = "ok"
    /\ \E j \in DOMAIN bound[last.m] :
          j # last.args[1] /\ bound[last.m][j] \notin {nullptr, last.ret}

\* The arity the documentation gives for each kind.
ArityOfKind(kind) ==
    CASE kind \in {"Add", "Multiply", "Power"} -> 2
      [] kind \in {"Blend", "Select"} -> 3
      [] kind = "Displace" -> 4
      [] kind \in {"Clamp", "Curve", "Exponent", "Invert", "ScaleBias", "Terrace",
                   "TranslatePoint", "ScalePoint", "RotatePoint", "Turbulence"} -> 1
      [] OTHER -> 0

\* C3: in every reachable state the number of child slots of every module
\* equals the constant GetSourceModuleCount() of its kind: 0 for generators,
\* 1 for modifiers and point transformers, 2 for Add/Multiply/Power, 3 for
\* Blend/Select, 4 for Displace.
C3_SlotCountIsArity ==
    /\ \A m \in Modules : Len(m_sourceModules[m]) = ArityOfKind(KindOf[m])
    /\ \A k \in Kinds : GetSourceModuleCount(k) = ArityOfKind(k)

\* The three displacement slots of a Displace were bound through the named
\* setter.
C3_Witness ==
    /\ last.op = "SetDisplaceModules"
    /\ \A i \in 2..4 : m_sourceModules["displace"][i] # nullptr

C5_ConcurrentEvalMatchesSequential ==
    \A t \in Threads : \A i \in DOMAIN done[t] :
        done[t][i].val = GetValue(done[t][i].m, done[t][i].p)

\* Both threads finished an evaluation of the same root at different points,
\* one of them having finished while the other was still running.
C5_Witness ==
    /\ Len(done[1]) = 1
    /\ Len(done[2]) = 1
    /\ done[1][1].m = done[2][1].m
    /\ done[1][1].p # done[2][1].p
    /\ done[1][1].val # done[2][1].val
    /\ (done[1][1].conc \/ done[2][1].conc)

\* ------------------------------------------------------------------------
\* Claims about the octave count
\* ------------------------------------------------------------------------
\* C6: SetOctaveCount(n) with n > 30 on a Perlin, Billow or RidgedMulti
\* module fails with ExceptionInvalidParam and leaves the stored octave count
\* unchanged.
C6_OctaveAbove30Rejected ==
    [][(last'.op = "SetOctaveCount" /\ last'.args[1] > 30)
       => (/\ last'.err = "ExceptionInvalidParam"
           /\ m_octaveCount' = m_octaveCount)]_vars

\* A count above 30 was rejected on a module whose count had been changed
\* from the default before.
C6_Witness ==
    /\ last.op = "SetOctaveCount"
    /\ last.args[1] = 31
    /\ last.err = "ExceptionInvalidParam"
    /\ m_octaveCount[last.m] = 30

\* C7 as stated: after any sequence of SetOctaveCount calls the stored octave
\* count of a Perlin, Billow or RidgedMulti module lies in 1..30.
C7_OctaveIn1To30 == \A m \in OctaveModules : m_octaveCount[m] \in 1..30

\* C7 as amended: the stored octave count of a Perlin or Billow module lies in
\* 1..30; that of a RidgedMulti module is at most 30 and may be below 1.
C7_OctaveRangePerKind ==
    \A m \in OctaveModules :
        IF KindOf[m] = "RidgedMulti"
        THEN m_octaveCount[m] <= 30
        ELSE m_octaveCount[m] \in 1..30

\* A Perlin rejected 0 after a RidgedMulti had stored a count below 1 and a
\* Billow the maximum.
C7_Witness ==
    /\ last.op = "SetOctaveCount"
    /\ last.m = "perlin"
    /\ last.args[1] = 0
    /\ last.err = "ExceptionInvalidParam"
    /\ m_octaveCount["ridged"] < 1
    /\ m_octaveCount["billow"] = 30

\* ------------------------------------------------------------------------
\* Claims about Clamp
\* ------------------------------------------------------------------------
\* C8: Clamp.SetBounds(lo, hi) with lo > hi fails with ExceptionInvalidParam
\* and leaves both bounds unchanged, lo <= hi (lo = hi included) is accepted,
\* so in every reachable state lower bound <= upper bound and the result of
\* GetValue lies in [lower bound, upper bound].
C8_ClampBoundsOrdered ==
    /\ [](/\ QLe(m_lowerBound["clamp"], m_upperBound["clamp"])
          /\ (last.op = "GetValue" /\ last.m = "clamp" /\ last.err = "ok")
               => (/\ QLe(m_lowerBound["clamp"], last.ret)
                   /\ QLe(last.ret, m_upperBound["clamp"])))
    /\ [][(last'.op = "SetBounds" /\ last'.m = "clamp")
          => IF QGt(last'.args[1], last'.args[2])
             THEN /\ last'.err = "ExceptionInvalidParam"
                  /\ m_lowerBound' = m_lowerBound
                  /\ m_upperBound' = m_upperBound
             ELSE /\ last'.err = "ok"
                  /\ m_lowerBound'["clamp"] = last'.args[1]
                  /\ m_upperBound'["clamp"] = last'.args[2]]_vars

\* Inverted bounds were rejected while the clamp holds equal bounds that
\* differ from the defaults.
C8_Witness ==
    /\ last.op = "SetBounds"
    /\ last.m = "clamp"
    /\ last.err = "ExceptionInvalidParam"
    /\ m_lowerBound["clamp"] = m_upperBound["clamp"]

\* With equal bounds GetValue returned the bound although the source value
\* is another one.
C8_WitnessValue ==
    /\ last.op = "GetValue"
    /\ last.m = "clamp"
    /\ last.err = "ok"
    /\ m_lowerBound["clamp"] = m_upperBound["clamp"]
    /\ last.ret = m_lowerBound["clamp"]
    /\ m_constValue # last.ret

\* ------------------------------------------------------------------------
\* Claims about Select's parameters
\* ------------------------------------------------------------------------
\* C9: Select.SetBounds(lower, upper) with lower >= upper is rejected with
\* ExceptionInvalidParam, and the stored lower bound, upper bound and edge
\* falloff are unchanged by the rejected call.
C9_SelectBoundsRejected ==
    [][(/\ last'.op = "SetBounds"
        /\ last'.m = "select"
        /\ QLe(last'.args[2], last'.args[1]))
       => (/\ last'.err = "ExceptionInvalidParam"
           /\ m_lowerBound' = m_lowerBound
           /\ m_upperBound' = m_upperBound
           /\ m_edgeFalloff' = m_edgeFalloff)]_vars

\* C10: in every state reached by SetBounds and SetEdgeFalloff calls on a
\* Select (from the defaults -1, 1, 0) the stored edge falloff is at most
\* (upper - lower) / 2, so the transition interval around the lower bound ends
\* no later than the one around the upper bound begins.
C10_FalloffAtMostHalfRange ==
    /\ QLe(m_edgeFalloff,
           QDiv(QSub(m_upperBound["select"], m_lowerBound["select"]), Q(2)))
    /\ QLe(QAdd(m_lowerBound["select"], m_edgeFalloff),
           QSub(m_upperBound["select"], m_edgeFalloff))

\* SetBounds with lower < upper narrowed the range and the positive falloff
\* was cut down to half of the new range.
C10_Witness ==
    /\ last.op = "SetBounds"
    /\ last.m = "select"
    /\ last.err = "ok"
    /\ QLt(last.args[1], last.args[2])
    /\ m_edgeFalloff = <<1, 2>>
    /\ QSub(m_upperBound["select"], m_lowerBound["select"]) = Q(1)

\* ------------------------------------------------------------------------
\* Select::GetValue over a control value
\* ------------------------------------------------------------------------
\* A Select whose children 0 and 1 never agree (a checkerboard, and the same
\* checkerboard clamped to [0, 1/2]) and whose control module is a Const.
SelectValueWiring ==
    [const |-> <<>>, checker |-> <<>>, perlin |-> <<>>, billow |-> <<>>,
     ridged |-> <<>>, clamp |-> <<"checker">>,
     add |-> ModuleCtor(Count("add")), blend |-> ModuleCtor(Count("blend")),
     select |-> <<"checker", "clamp", "const">>,
     displace |-> ModuleCtor(Count("displace"))]

InitSelectValue ==
    /\ m_sourceModules = SelectValueWiring
    /\ m_octaveCount = [m \in OctaveModules |-> DefaultOctaveCount(KindOf[m])]
    /\ m_lowerBound = [clamp |-> Q(0), select |-> DEFAULT_LOWER_BOUND]
    /\ m_upperBound = [clamp |-> <<1, 2>>, select |-> DEFAULT_UPPER_BOUND]
    /\ m_edgeFalloff = DEFAULT_SELECT_EDGE_FALLOFF
    /\ m_constValue = DEFAULT_CONST_VALUE
    /\ aborted = FALSE
    /\ last = NoCall
    /\ bound = [m \in Modules |-> [i \in 0..(Count(m) - 1) |-> m_sourceModules[m][i + 1]]]
    /\ stack = [t \in Threads |-> <<>>]
    /\ locals = <<>>
    /\ done = [t \in Threads |-> <<>>]
    /\ TablesConstructed
    /\ GeneratorsConstructed
    /\ ThreadsIdle

ControlArgs ==
    {Q(-2), <<-5, 4>>, Q(-1), <<-3, 4>>, Q(0), <<1, 2>>, <<3, 4>>, Q(1),
     <<5, 4>>, Q(2)}

NextSelectValue ==
    \/ \E lo \in SelectBoundArgs, hi \in SelectBoundArgs : SelectSetBounds("select", lo, hi)
    \/ \E e \in FalloffArgs : SetEdgeFalloff("select", e)
    \/ \E c \in ControlArgs : SetConstValue("const", c)
    \/ \E p \in Points : GetValueCall("select", p)

SpecSelectValue == InitSelectValue /\ [][NextSelectValue]_vars

\* The last call was a completed Select::GetValue.
SelectEvaluated ==
    /\ last.op = "GetValue"
    /\ last.m = "select"
    /\ last.err = "ok"

\* C11: with edge falloff <= 0, Select.GetValue returns child 0's value when
\* the control value c is below the lower bound or above the upper bound and
\* child 1's value otherwise; c == lower and c == upper select child 1.
C11_SelectWithoutFalloff ==
    (SelectEvaluated /\ QLe(m_edgeFalloff, Q(0))) =>
        LET c == GetValue(Source("select", 2), last.args[1])
            child0 == GetValue(Source("select", 0), last.args[1])
            child1 == GetValue(Source("select", 1), last.args[1])
        IN  /\ (QLt(c, m_lowerBound["select"]) \/ QGt(c, m_upperBound["select"]))
                  => last.ret = child0
            /\ ~(QLt(c, m_lowerBound["select"]) \/ QGt(c, m_upperBound["select"]))
                  => last.ret = child1
            /\ (c = m_lowerBound["select"] /\ QLe(c, m_upperBound["select"]))
                  => last.ret = child1
            /\ (c = m_upperBound["select"] /\ QLe(m_lowerBound["select"], c))
                  => last.ret = child1

\* Select evaluated with no falloff and the control value on the lower bound:
\* child 1 was returned, and it differs from child 0.
C11_Witness ==
    /\ SelectEvaluated
    /\ m_edgeFalloff = Q(0)
    /\ m_constValue = m_lowerBound["select"]
    /\ QLt(m_lowerBound["select"], m_upperBound["select"])
    /\ last.ret = GetValue("clamp", last.args[1])
    /\ last.ret # GetValue("checker", last.args[1])

\* The precondition of the falloff claims: 0 < e <= (upper - lower) / 2.
FalloffInRange ==
    /\ QGt(m_edgeFalloff, Q(0))
    /\ QLe(m_edgeFalloff,
           QDiv(QSub(m_upperBound["select"], m_lowerBound["select"]), Q(2)))

\* C12: with edge falloff e > 0 (e <= (upper - lower) / 2) Select's output
\* is continuous in the control value at the four crossing points: at
\* c = lower - e and c = upper + e it is child 0, at c = lower + e and
\* c = upper - e it is child 1, and each blend formula taken at the two ends
\* of its transition interval gives the value of the adjoining region.
C12_SelectContinuousAtCrossings ==
    FalloffInRange =>
        LET lower == m_lowerBound["select"]
            upper == m_upperBound["select"]
            e == m_edgeFalloff
        IN  /\ \A p \in Points :
                  LET v0 == GetValue(Source("select", 0), p)
                      v1 == GetValue(Source("select", 1), p)
                  IN  /\ LinearInterp(v0, v1, SelectAlpha(QSub(lower, e), lower, e)) = v0
                      /\ LinearInterp(v0, v1, SelectAlpha(QAdd(lower, e), lower, e)) = v1
                      /\ LinearInterp(v1, v0, SelectAlpha(QSub(upper, e), upper, e)) = v1
                      /\ LinearInterp(v1, v0, SelectAlpha(QAdd(upper, e), upper, e)) = v0
            /\ SelectEvaluated =>
                  LET c == GetValue(Source("select", 2), last.args[1])
                      child0 == GetValue(Source("select", 0), last.args[1])
                      child1 == GetValue(Source("select", 1), last.args[1])
                  IN  /\ (c = QSub(lower, e) \/ c = QAdd(upper, e)) => last.ret = child0
                      /\ (c = QAdd(lower, e) \/ c = QSub(upper, e)) => last.ret = child1

\* Select evaluated with the control value on the crossing lower - e, where
\* the lower blend starts: child 0 was returned, and it differs from child 1.
C12_Witness ==
    /\ SelectEvaluated
    /\ FalloffInRange
    /\ m_constValue = QSub(m_lowerBound["select"], m_edgeFalloff)
    /\ last.ret = GetValue("checker", last.args[1])
    /\ last.ret # GetValue("clamp", last.args[1])

\* ------------------------------------------------------------------------
\* Curve: control points (inputValue, outputValue), values as exact rationals
\* ------------------------------------------------------------------------
\* What a table operation of Curve or Terrace leaves alone.
otherState ==
    <<m_sourceModules, m_octaveCount, m_lowerBound, m_upperBound,
      m_edgeFalloff, m_constValue, bound, evalState, generatorState>>

\* std::vector::insert(begin() + insertionPos, x)
VectorInsert(points, insertionPos, x) ==
    SubSeq(points, 1, insertionPos) \o <<x>> \o SubSeq(points, insertionPos + 1, Len(points))

\* A clear that keeps the elements.
VectorKept(points) == points

\* std::vector::clear()
VectorClear(points) == <<>>

\* A search that never throws: a duplicate is placed after its equal.
RECURSIVE CurveFindInsertionPosNoThrow(_, _, _)
CurveFindInsertionPosNoThrow(points, inputValue, i) ==
    IF i >= Len(points) THEN [throws |-> FALSE, pos |-> Len(points)]
    ELSE IF QLt(inputValue, points[i + 1].inputValue) THEN [throws |-> FALSE, pos |-> i]
    ELSE CurveFindInsertionPosNoThrow(points, inputValue, i + 1)

\* Curve::FindInsertionPos(inputValue): the loop from index i on.
RECURSIVE CurveFindInsertionPos(_, _, _)
CurveFindInsertionPos(points, inputValue, i) ==
    IF i >= Len(points) THEN [throws |-> FALSE, pos |-> Len(points)]
    ELSE IF QLt(inputValue, points[i + 1].inputValue) THEN [throws |-> FALSE, pos |-> i]
    ELSE IF inputValue = points[i + 1].inputValue THEN [throws |-> TRUE, pos |-> i]
    ELSE CurveFindInsertionPos(points, inputValue, i + 1)

\* Curve::InsertAtPos(insertionPos, inputValue, outputValue)
CurveInsertAtPos(points, insertionPos, inputValue, outputValue) ==
    VectorInsert(points, insertionPos,
                 [inputValue |-> inputValue, outputValue |-> outputValue])

\* Curve::AddControlPoint(inputValue, outputValue)
CurveAddControlPoint(m, inputValue, outputValue) ==
    /\ CanCall
    /\ LET found == CurveFindInsertionPos(m_controlPoints[m], inputValue, 0)
       IN  IF found.throws
           THEN /\ Called("AddControlPoint", m, <<inputValue, outputValue>>,
                          "ExceptionInvalidParam", nullptr)
                /\ UNCHANGED m_controlPoints
           ELSE /\ m_controlPoints' =
                      [m_controlPoints EXCEPT ![m] =
                          CurveInsertAtPos(@, found.pos, inputValue, outputValue)]
                /\ Called("AddControlPoint", m, <<inputValue, outputValue>>, "ok", nullptr)
    /\ UNCHANGED <<otherState, m_invertTerraces, aborted>>

\* Curve::ClearAllControlPoints() and Terrace::ClearAllControlPoints()
ClearAllControlPoints(m) ==
    /\ CanCall
    /\ m_controlPoints' = [m_controlPoints EXCEPT ![m] = VectorClear(@)]
    /\ Called("ClearAllControlPoints", m, <<>>, "ok", nullptr)
    /\ UNCHANGED <<otherState, m_invertTerraces, aborted>>

\* misc.h: ClampValue(value, lowerBound, upperBound) on int
ClampValue(value, lowerBound, upperBound) ==
    IF value < lowerBound THEN lowerBound
    ELSE IF upperBound < value THEN upperBound ELSE value

\* A cubic whose constant term is n2 instead of n1.
CubicInterpFromN2(n0, n1, n2, n3, a) ==
    LET a2 == QMul(a, a)
        a3 == QMul(a2, a)
        p == QSub(QSub(n3, n2), QSub(n0, n1))
        q == QSub(QSub(n0, n1), p)
        r == QSub(n2, n0)
        s == n2
    IN  QAdd(QAdd(QAdd(QMul(p, a3), QMul(q, a2)), QMul(r, a)), s)

\* interp.h: CubicInterp(n0, n1, n2, n3, a)
CubicInterp(n0, n1, n2, n3, a) ==
    LET a2 == QMul(a, a)
        a3 == QMul(a2, a)
        p == QSub(QSub(n3, n2), QSub(n0, n1))
        q == QSub(QSub(n0, n1), p)
        r == QSub(n2, n0)
        s == n1
    IN  QAdd(QAdd(QAdd(QMul(p, a3), QMul(q, a2)), QMul(r, a)), s)

\* The loop of Curve::GetValue: the first index from indexPos on whose
\* inputValue exceeds sourceValue, or the size of the table.
RECURSIVE CurveIndexPos(_, _, _)
CurveIndexPos(points, sourceValue, indexPos) ==
    IF indexPos >= Len(points) THEN Len(points)
    ELSE IF QLt(sourceValue, points[indexPos + 1].inputValue) THEN indexPos
    ELSE CurveIndexPos(points, sourceValue, indexPos + 1)

\* Curve::GetValue after the source module returned sourceValue, for a
\* table that is not empty.
CurveValue(points, sourceValue) ==
    LET indexPos == CurveIndexPos(points, sourceValue, 0)
        index0 == ClampValue(indexPos - 2, 0, Len(points) - 1)
        index1 == ClampValue(indexPos - 1, 0, Len(points) - 1)
        index2 == ClampValue(indexPos, 0, Len(points) - 1)
        index3 == ClampValue(indexPos + 1, 0, Len(points) - 1)
    IN  IF index1 = index2 THEN points[index1 + 1].outputValue
        ELSE LET input0 == points[index1 + 1].inputValue
                 input1 == points[index2 + 1].inputValue
                 alpha == QDiv(QSub(sourceValue, input0), QSub(input1, input0))
             IN  CubicInterp(points[index0 + 1].outputValue, points[index1 + 1].outputValue,
                             points[index2 + 1].outputValue, points[index3 + 1].outputValue,
                             alpha)

\* Curve::GetValue(x, y, z) on a Curve whose source module is bound and
\* returns sourceValue.  assert(m_controlPoints.size() >= 4) ends the process
\* in a build with assertions; without them the code goes on, and on an empty
\* table it reads outside the vector: the process ends or any value comes back.
CurveGetValue(m, sourceValue, garbage) ==
    /\ CanCall
    /\ \/ /\ Len(m_controlPoints[m]) < 4
          /\ aborted' = TRUE
          /\ Called("GetValue", m, <<sourceValue>>, "abort", nullptr)
       \/ /\ Len(m_controlPoints[m]) = 0
          /\ Called("GetValue", m, <<sourceValue>>, "undefined", garbage)
          /\ UNCHANGED aborted
       \/ /\ Len(m_controlPoints[m]) > 0
          /\ Called("GetValue", m, <<sourceValue>>, "ok",
                    CurveValue(m_controlPoints[m], sourceValue))
          /\ UNCHANGED aborted
    /\ UNCHANGED <<otherState, tableState>>

CurveInputArgs == {Q(0), Q(1), Q(2), Q(3)}

\* Each input with an output on the identity line or with the output 1.
CurvePointArgs == {<<i, o>> \in CurveInputArgs \X CurveInputArgs : o = i \/ o = Q(1)}

CurveSourceArgs ==
    {Q(-1), Q(0), <<1, 4>>, <<1, 2>>, Q(1), <<5, 4>>, <<3, 2>>, Q(2), <<5, 2>>, Q(3), Q(4)}

NextCurve ==
    \/ \E a \in CurvePointArgs : CurveAddControlPoint("curve", a[1], a[2])
    \/ ClearAllControlPoints("curve")
    \/ \E v \in CurveSourceArgs, g \in {Q(0), Q(4)} : CurveGetValue("curve", v, g)

SpecCurve == Init /\ [][NextCurve]_vars

\* ------------------------------------------------------------------------
\* Terrace: control points are doubles, in binary64 arithmetic
\* ------------------------------------------------------------------------
\* A search that always answers the end of the table.
RECURSIVE TerraceFindInsertionPosAtEnd(_, _, _)
TerraceFindInsertionPosAtEnd(points, value, insertionPos) ==
    IF insertionPos >= Len(points) THEN [throws |-> FALSE, pos |-> Len(points)]
    ELSE IF value = points[insertionPos + 1] THEN [throws |-> TRUE, pos |-> insertionPos]
    ELSE TerraceFindInsertionPosAtEnd(points, value, insertionPos + 1)

\* Terrace::FindInsertionPos(value): the loop from insertionPos on.
RECURSIVE TerraceFindInsertionPos(_, _, _)
TerraceFindInsertionPos(points, value, insertionPos) ==
    IF insertionPos >= Len(points) THEN [throws |-> FALSE, pos |-> insertionPos]
    ELSE IF DLt(value, points[insertionPos + 1]) THEN [throws |-> FALSE, pos |-> insertionPos]
    ELSE IF value = points[insertionPos + 1] THEN [throws |-> TRUE, pos |-> insertionPos]
    ELSE TerraceFindInsertionPos(points, value, insertionPos + 1)

\* Terrace::InsertAtPos(insertionPos, value)
TerraceInsertAtPos(points, insertionPos, value) == VectorInsert(points, insertionPos, value)

\* Terrace::AddControlPoint(value)
TerraceAddControlPoint(m, value) ==
    /\ CanCall
    /\ LET found == TerraceFindInsertionPos(m_controlPoints[m], value, 0)
       IN  IF found.throws
           THEN /\ Called("AddControlPoint", m, <<value>>, "ExceptionInvalidParam", nullptr)
                /\ UNCHANGED m_controlPoints
           ELSE /\ m_controlPoints' =
                      [m_controlPoints EXCEPT ![m] = TerraceInsertAtPos(@, found.pos, value)]
                /\ Called("AddControlPoint", m, <<value>>, "ok", nullptr)
    /\ UNCHANGED <<otherState, m_invertTerraces, aborted>>

\* Terrace::InvertTerraces(invert)
InvertTerraces(m, invert) ==
    /\ CanCall
    /\ m_invertTerraces' = invert
    /\ Called("InvertTerraces", m, <<invert>>, "ok", nullptr)
    /\ UNCHANGED <<otherState, m_controlPoints, aborted>>

\* A check that lets a count of 0 or 1 through.
ControlPointCountInvalidNegative(controlPointCount) == controlPointCount < 0

\* The argument check of Terrace::MakeControlPoints: controlPointCount < 2.
ControlPointCountInvalid(controlPointCount) == controlPointCount < 2

\* terraceStep = 2.0 / (static_cast<double>(controlPointCount) - 1.0)
TerraceStep(controlPointCount) ==
    DDiv(D(2, 0), DSub(D(controlPointCount, 0), D(1, 0)))

\* The loop of Terrace::MakeControlPoints from iteration i on: each round
\* calls AddControlPoint(curValue), whose exception ends the loop, and adds
\* terraceStep to curValue.
RECURSIVE MakeControlPointsFrom(_, _, _, _, _)
MakeControlPointsFrom(points, curValue, terraceStep, i, controlPointCount) ==
    IF i >= controlPointCount THEN [throws |-> FALSE, points |-> points]
    ELSE LET found == TerraceFindInsertionPos(points, curValue, 0)
         IN  IF found.throws THEN [throws |-> TRUE, points |-> points]
             ELSE MakeControlPointsFrom(TerraceInsertAtPos(points, found.pos, curValue),
                                        DAdd(curValue, terraceStep), terraceStep,
                                        i + 1, controlPointCount)

\* Terrace::MakeControlPoints(controlPointCount)
MakeControlPoints(m, controlPointCount) ==
    /\ CanCall
    /\ IF ControlPointCountInvalid(controlPointCount)
       THEN /\ Called("MakeControlPoints", m, <<controlPointCount>>,
                      "ExceptionInvalidParam", nullptr)
            /\ UNCHANGED m_controlPoints
       ELSE LET made == MakeControlPointsFrom(VectorClear(m_controlPoints[m]), D(-1, 0),
                                              TerraceStep(controlPointCount), 0,
                                              controlPointCount)
            IN  /\ m_controlPoints' = [m_controlPoints EXCEPT ![m] = made.points]
                /\ Called("MakeControlPoints", m, <<controlPointCount>>,
                          IF made.throws THEN "ExceptionInvalidParam" ELSE "ok", nullptr)
    /\ UNCHANGED <<otherState, m_invertTerraces, aborted>>

\* LinearInterp on doubles: (1.0 - a) * n0 + a * n1
DLinearInterp(n0, n1, a) == DAdd(DMul(DSub(D(1, 0), a), n0), DMul(a, n1))

\* An interpolation that inverts alpha without swapping the two values.
TerraceSegmentNoSwap(value0, value1, invert, sourceModuleValue) ==
    LET alpha0 == DDiv(DSub(sourceModuleValue, value0), DSub(value1, value0))
        alpha1 == IF invert THEN DSub(D(1, 0), alpha0) ELSE alpha0
    IN  DLinearInterp(value0, value1, DMul(alpha1, alpha1))

\* The interpolation of Terrace::GetValue between two neighbouring control
\* points: alpha, its inversion with the swap of the values, its square and
\* LinearInterp.
TerraceSegment(value0, value1, invert, sourceModuleValue) ==
    LET alpha0 == DDiv(DSub(sourceModuleValue, value0), DSub(value1, value0))
        alpha1 == IF invert THEN DSub(D(1, 0), alpha0) ELSE alpha0
        v0 == IF invert THEN value1 ELSE value0
        v1 == IF invert THEN value0 ELSE value1
    IN  DLinearInterp(v0, v1, DMul(alpha1, alpha1))

\* The loop of Terrace::GetValue: the first index from indexPos on whose
\* control point exceeds sourceModuleValue, or the size of the table.
RECURSIVE TerraceIndexPos(_, _, _)
TerraceIndexPos(points, sourceModuleValue, indexPos) ==
    IF indexPos >= Len(points) THEN Len(points)
    ELSE IF DLt(sourceModuleValue, points[indexPos + 1]) THEN indexPos
    ELSE TerraceIndexPos(points, sourceModuleValue, indexPos + 1)

\* Terrace::GetValue after the source module returned sourceModuleValue, for
\* a table that is not empty.
TerraceValue(points, invert, sourceModuleValue) ==
    LET indexPos == TerraceIndexPos(points, sourceModuleValue, 0)
        index0 == IF indexPos - 1 < 0 THEN 0 ELSE indexPos - 1
        index1 == IF indexPos >= Len(points) THEN Len(points) - 1 ELSE indexPos
    IN  IF index0 = index1 THEN points[index1 + 1]
        ELSE TerraceSegment(points[index0 + 1], points[index1 + 1], invert,
                            sourceModuleValue)

\* Terrace::GetValue(x, y, z) on a Terrace whose source module is bound and
\* returns sourceModuleValue.  assert(m_controlPoints.size() >= 2) ends the
\* process in a build with assertions; without them the code goes on, and on
\* an empty table it reads outside the vector: the process ends or any value
\* comes back.
TerraceGetValue(m, sourceModuleValue, garbage) ==
    /\ CanCall
    /\ \/ /\ Len(m_controlPoints[m]) < 2
          /\ aborted' = TRUE
          /\ Called("GetValue", m, <<sourceModuleValue>>, "abort", nullptr)
       \/ /\ Len(m_controlPoints[m]) = 0
          /\ Called("GetValue", m, <<sourceModuleValue>>, "undefined", garbage)
          /\ UNCHANGED aborted
       \/ /\ Len(m_controlPoints[m]) > 0
          /\ Called("GetValue", m, <<sourceModuleValue>>, "ok",
                    TerraceValue(m_controlPoints[m], m_invertTerraces, sourceModuleValue))
          /\ UNCHANGED aborted
    /\ UNCHANGED <<otherState, tableState>>

\* The largest count given to MakeControlPoints.
MaxPoints == 5

TerraceValueArgs == {D(-1, 0), D(0, 0), D(1, -1), D(1, 0)}

TerraceCountArgs == (-1)..MaxPoints

\* The values a source module returns: values off the control points, and
\* every control point a table can hold.
TerraceSourceArgs ==
    {D(-2, 0), D(-3, -2), D(1, -2), D(3, -2), D(2, 0)}
        \cup TerraceValueArgs
        \cup UNION {LET made == MakeControlPointsFrom(<<>>, D(-1, 0), TerraceStep(n), 0, n).points
                    IN  {made[i] : i \in 1..Len(made)} : n \in 2..MaxPoints}

NextTerrace ==
    \/ \E v \in TerraceValueArgs : TerraceAddControlPoint("terrace", v)
    \/ ClearAllControlPoints("terrace")
    \/ \E n \in TerraceCountArgs : MakeControlPoints("terrace", n)
    \/ \E b \in BOOLEAN : InvertTerraces("terrace", b)
    \/ \E v \in TerraceSourceArgs, g \in {D(0, 0), D(3, 0)} : TerraceGetValue("terrace", v, g)

SpecTerrace == Init /\ [][NextTerrace]_vars

\* The operations that change a control-point table, of Curve and of Terrace.
NextTables ==
    \/ \E i \in CurveInputArgs : CurveAddControlPoint("curve", i, Q(1))
    \/ \E v \in TerraceValueArgs : TerraceAddControlPoint("terrace", v)
    \/ \E m \in {"curve", "terrace"} : ClearAllControlPoints(m)
    \/ \E n \in TerraceCountArgs : MakeControlPoints("terrace", n)

SpecTables == Init /\ [][NextTables]_vars

\* ------------------------------------------------------------------------
\* Claims about the control-point tables
\* ------------------------------------------------------------------------
\* The keys the two tables are ordered by.
CurveKeys == [i \in 1..Len(m_controlPoints["curve"]) |-> m_controlPoints["curve"][i].inputValue]

TerraceKeys == m_controlPoints["terrace"]

Elements(seq) == {seq[i] : i \in 1..Len(seq)}

\* The last call was an accepted AddControlPoint on m.
AddAccepted(m) ==
    /\ last'.op = "AddControlPoint"
    /\ last'.m = m
    /\ last'.err = "ok"

\* C13: after any sequence of AddControlPoint, ClearAllControlPoints and
\* (Terrace) MakeControlPoints calls the table of a Curve is strictly
\* increasing by inputValue and the table of a Terrace strictly increasing by
\* value, and each accepted AddControlPoint grows the table by exactly the
\* new point and keeps all earlier points.
C13_TablesStrictlyIncreasing ==
    /\ [](/\ \A i \in 1..(Len(CurveKeys) - 1) : QLt(CurveKeys[i], CurveKeys[i + 1])
          /\ \A i \in 1..(Len(TerraceKeys) - 1) : DLt(TerraceKeys[i], TerraceKeys[i + 1]))
    /\ [][/\ AddAccepted("curve") =>
                /\ Len(m_controlPoints'["curve"]) = Len(m_controlPoints["curve"]) + 1
                /\ Elements(m_controlPoints'["curve"]) =
                      Elements(m_controlPoints["curve"]) \cup
                          {[inputValue |-> last'.args[1], outputValue |-> last'.args[2]]}
          /\ AddAccepted("terrace") =>
                /\ Len(m_controlPoints'["terrace"]) = Len(m_controlPoints["terrace"]) + 1
                /\ Elements(m_controlPoints'["terrace"]) =
                      Elements(m_controlPoints["terrace"]) \cup {last'.args[1]}]_vars

\* An AddControlPoint was accepted that put its point in front of points
\* already in the Terrace table, which MakeControlPoints had filled.
C13_Witness ==
    /\ last.op = "AddControlPoint"
    /\ last.m = "terrace"
    /\ last.err = "ok"
    /\ Len(m_controlPoints["terrace"]) = 5
    /\ m_controlPoints["terrace"][3] = last.args[1]
    /\ Len(m_controlPoints["curve"]) >= 2

\* The last call was a rejected AddControlPoint on m.
AddRejected(m) ==
    /\ last'.op = "AddControlPoint"
    /\ last'.m = m
    /\ last'.err = "ExceptionInvalidParam"

\* C14: AddControlPoint on a Curve with an inputValue already in the table,
\* or on a Terrace with a value already in the table, fails with
\* ExceptionInvalidParam and leaves the table unchanged.
C14_DuplicatePointRejected ==
    [][/\ (/\ last'.op = "AddControlPoint"
           /\ last'.m = "curve"
           /\ \E i \in 1..Len(CurveKeys) : CurveKeys[i] = last'.args[1])
          => (AddRejected("curve") /\ m_controlPoints' = m_controlPoints)
       /\ (/\ last'.op = "AddControlPoint"
           /\ last'.m = "terrace"
           /\ \E i \in 1..Len(TerraceKeys) : TerraceKeys[i] = last'.args[1])
          => (AddRejected("terrace") /\ m_controlPoints' = m_controlPoints)]_vars

\* A Curve point was rejected whose inputValue is that of the middle one of
\* three points in the table.
C14_Witness ==
    /\ last.op = "AddControlPoint"
    /\ last.m = "curve"
    /\ last.err = "ExceptionInvalidParam"
    /\ Len(m_controlPoints["curve"]) = 3
    /\ m_controlPoints["curve"][2].inputValue = last.args[1]

\* C15: Terrace.MakeControlPoints(n) with n < 2 fails with
\* ExceptionInvalidParam and leaves the control points untouched: the table
\* is not cleared.
C15_MakeBelowTwoRejected ==
    [][(/\ last'.op = "MakeControlPoints"
        /\ last'.args[1] < 2)
       => (/\ last'.err = "ExceptionInvalidParam"
           /\ m_controlPoints' = m_controlPoints)]_vars

\* MakeControlPoints(1) was rejected on a table of three points.
C15_Witness ==
    /\ last.op = "MakeControlPoints"
    /\ last.args = <<1>>
    /\ last.err = "ExceptionInvalidParam"
    /\ Len(m_controlPoints["terrace"]) = 3

\* The last call was a MakeControlPoints(n) with n >= 2.
MadeControlPoints ==
    /\ last.op = "MakeControlPoints"
    /\ last.args[1] >= 2

C17_TerraceExactAtControlPoints ==
    LET points == m_controlPoints["terrace"]
    IN  Len(points) >= 2 =>
            /\ \A k \in 1..Len(points) :
                  TerraceValue(points, m_invertTerraces, points[k]) = points[k]
            /\ \A k \in 2..Len(points) :
                  TerraceSegment(points[k - 1], points[k], m_invertTerraces, points[k])
                      = points[k]
            /\ (/\ last.op = "GetValue"
                /\ last.err = "ok"
                /\ last.args[1] \in Elements(points))
               => last.ret = last.args[1]

\* GetValue ran with inverted terraces on the four points MakeControlPoints(4)
\* leaves, the source value being the second control point.
C17_Witness ==
    /\ last.op = "GetValue"
    /\ last.err = "ok"
    /\ m_invertTerraces
    /\ Len(m_controlPoints["terrace"]) = 4
    /\ DLt(m_controlPoints["terrace"][4], D(1, 0))
    /\ last.args[1] = m_controlPoints["terrace"][2]
    /\ last.ret = m_controlPoints["terrace"][2]

\* A Curve of at least 4 control points, all on the identity line, whose
\* GetValue has just returned for a source value between the first and the
\* last inputValue.
IdentityCurveEvaluated ==
    LET points == m_controlPoints["curve"]
    IN  /\ last.op = "GetValue"
        /\ last.m = "curve"
        /\ last.err = "ok"
        /\ Len(points) >= 4
        /\ \A i \in 1..Len(points) : points[i].outputValue = points[i].inputValue
        /\ QLe(points[1].inputValue, last.args[1])
        /\ QLe(last.args[1], points[Len(points)].inputValue)

\* The tolerance of a comparison "to float tolerance".
FloatTolerance == <<1, 1000000>>

\* C18 as stated: for a Curve with at least 4 control points whose
\* outputValue equals their inputValue, GetValue returns the source value
\* itself, to float tolerance, for every source value between the first and
\* the last inputValue.
C18_IdentityCurveIsIdentity ==
    IdentityCurveEvaluated =>
        /\ QLe(QSub(last.ret, last.args[1]), FloatTolerance)
        /\ QLe(QSub(last.args[1], last.ret), FloatTolerance)

\* C18: for a Curve with at least 4 control points whose outputValue equals
\* their inputValue, GetValue returns the source value itself when the source
\* value is the inputValue of a control point; between control points the
\* cubic of CubicInterp can leave the identity line.
C18_IdentityCurveAtControlPoints ==
    (/\ IdentityCurveEvaluated
     /\ \E i \in 1..Len(CurveKeys) : CurveKeys[i] = last.args[1])
        => last.ret = last.args[1]

\* GetValue ran on the identity points 0, 1, 2, 3 with the source value 2.
C18_Witness ==
    /\ IdentityCurveEvaluated
    /\ Len(m_controlPoints["curve"]) = 4
    /\ last.args[1] = Q(2)
    /\ last.ret = Q(2)

\* ------------------------------------------------------------------------
\* noisegen: MakeInt32Range, IntValueNoise3D and ValueNoise3D
\* ------------------------------------------------------------------------
\* A call of MakeInt32Range(n)
MakeInt32RangeCall(n) ==
    /\ CanCall
    /\ Called("MakeInt32Range", nullptr, <<n>>, "ok", MakeInt32Range(n))
    /\ UNCHANGED <<moduleState, aborted, bound, evalState>>

\* Doubles around the multiples of 2^28 up to 2^31, and halves below 2^30.
FoldArgs ==
    {Q(k * 268435456 + j) : k \in {-6, -4, -3, 0, 3, 4, 6}, j \in {-1, 0, 1}}
        \cup {<<(2 * k * 268435456) + 1, 2>> : k \in {-3, 0, 3}}
        \cup {Q(2147483647), Q(-2147483647)}

\* a * b, a + b leave the range of int32: signed overflow, which C++ leaves
\* undefined.
MulOverflows(a, b) ==
    IF a = 0 \/ b = 0 THEN FALSE
    ELSE IF a = MinInt32 THEN b # 1
    ELSE IF b = MinInt32 THEN a # 1
    ELSE IF (a < 0) # (b < 0)
         THEN /\ Abs(b) # 1
              /\ Abs(a) > (MaxInt32 \div Abs(b))
                              + (IF MaxInt32 % Abs(b) = Abs(b) - 1 THEN 1 ELSE 0)
         ELSE Abs(a) > MaxInt32 \div Abs(b)

AddOverflows(a, b) ==
    \/ b > 0 /\ a > MaxInt32 - b
    \/ b < 0 /\ a < MinInt32 - b

\* A mask that keeps the sign bit.
MaskAllBits(n) == n

\* n & 0x7fffffff
Mask31(n) == IF n >= 0 THEN n ELSE (n + MaxInt32) + 1

\* a ^ b for a, b in 0 .. 2^k - 1, by halves of the k bits
RECURSIVE BitXor(_, _, _)
BitXor(a, b, k) ==
    IF k = 1 THEN (a + b) % 2
    ELSE LET h == k \div 2
             m == 2 ^ h
         IN  BitXor(a % m, b % m, h) + m * BitXor(a \div m, b \div m, k - h)

\* noisegen.cpp, NOISE_VERSION 2
X_NOISE_GEN == 1619

Y_NOISE_GEN == 31337

Z_NOISE_GEN == 6971

SEED_NOISE_GEN == 1013

\* The first statement of IntValueNoise3D:
\* (X_NOISE_GEN * x + Y_NOISE_GEN * y + Z_NOISE_GEN * z + SEED_NOISE_GEN * seed) & 0x7fffffff
NoiseSum(x, y, z, seed) ==
    Add32(Add32(Add32(Mul32(X_NOISE_GEN, x), Mul32(Y_NOISE_GEN, y)),
                Mul32(Z_NOISE_GEN, z)),
          Mul32(SEED_NOISE_GEN, seed))

\* n = (n >> 13) ^ n
NoiseMix(n) == BitXor(n \div 8192, n, 31)

\* n * (n * n * 60493 + 19990303) + 1376312589
NoisePolynomial(n) ==
    Add32(Mul32(n, Add32(Mul32(Mul32(n, n), 60493), 19990303)), 1376312589)

\* noisegen.cpp: IntValueNoise3D(x, y, z, seed), the products and sums
\* wrapping modulo 2^32
IntValueNoise3D(x, y, z, seed) ==
    Mask31(NoisePolynomial(NoiseMix(Mask31(NoiseSum(x, y, z, seed)))))

\* Some product or sum of IntValueNoise3D overflows int32.
IntValueNoise3DOverflows(x, y, z, seed) ==
    LET px == Mul32(X_NOISE_GEN, x)
        py == Mul32(Y_NOISE_GEN, y)
        pz == Mul32(Z_NOISE_GEN, z)
        ps == Mul32(SEED_NOISE_GEN, seed)
        n == NoiseMix(Mask31(NoiseSum(x, y, z, seed)))
        nn == Mul32(n, n)
        inner == Add32(Mul32(nn, 60493), 19990303)
    IN  \/ MulOverflows(X_NOISE_GEN, x) \/ MulOverflows(Y_NOISE_GEN, y)
        \/ MulOverflows(Z_NOISE_GEN, z) \/ MulOverflows(SEED_NOISE_GEN, seed)
        \/ AddOverflows(px, py) \/ AddOverflows(Add32(px, py), pz)
        \/ AddOverflows(Add32(Add32(px, py), pz), ps)
        \/ MulOverflows(n, n) \/ MulOverflows(nn, 60493)
        \/ AddOverflows(Mul32(nn, 60493), 19990303)
        \/ MulOverflows(n, inner) \/ AddOverflows(Mul32(n, inner), 1376312589)

\* noisegen.h: ValueNoise3D, 1.0 - (static_cast<double>(n) / 1073741824.0),
\* for the value n of IntValueNoise3D
ValueNoise3D(n) == QSub(Q(1), QDiv(Q(n), Q(TwoPow30)))

\* A call of IntValueNoise3D(x, y, z, seed).  Where a product or sum
\* overflows, the wrapped value is what two's complement hardware gives; the
\* language leaves the value open, and then any int32 u may be what the last
\* mask is applied to.
IntValueNoise3DCall(x, y, z, seed, u) ==
    /\ CanCall
    /\ \/ Called("IntValueNoise3D", nullptr, <<x, y, z, seed>>, "ok",
                 IntValueNoise3D(x, y, z, seed))
       \/ /\ IntValueNoise3DOverflows(x, y, z, seed)
          /\ Called("IntValueNoise3D", nullptr, <<x, y, z, seed>>, "undefined", Mask31(u))
    /\ UNCHANGED <<moduleState, aborted, bound, evalState>>

\* A call of ValueNoise3D(x, y, z, seed)
ValueNoise3DCall(x, y, z, seed, u) ==
    /\ CanCall
    /\ \/ Called("ValueNoise3D", nullptr, <<x, y, z, seed>>, "ok",
                 ValueNoise3D(IntValueNoise3D(x, y, z, seed)))
       \/ /\ IntValueNoise3DOverflows(x, y, z, seed)
          /\ Called("ValueNoise3D", nullptr, <<x, y, z, seed>>, "undefined",
                    ValueNoise3D(Mask31(u)))
    /\ UNCHANGED <<moduleState, aborted, bound, evalState>>

NoiseArgs ==
    {<<0, 0, 0, 0>>, <<1, 2, 3, 4>>, <<1, 0, 0, 0>>, <<0, 0, 0, -1>>,
     <<-5, 3, 100000, -1>>, <<100000, 100000, 100000, MaxInt32>>,
     <<-5, -5, -5, MinInt32>>, <<MinInt32, MinInt32, MinInt32, MinInt32>>,
     <<MaxInt32, MaxInt32, MaxInt32, MaxInt32>>, <<MaxInt32, 0, MinInt32, 1>>,
     <<-1, -1, -1, -1>>, <<0, MaxInt32, 0, 0>>}

UndefinedArgs == {MinInt32, -1, 1}

NextNoiseGen ==
    \/ \E n \in FoldArgs : MakeInt32RangeCall(n)
    \/ \E a \in NoiseArgs, u \in UndefinedArgs :
          IntValueNoise3DCall(a[1], a[2], a[3], a[4], u)
    \/ \E a \in NoiseArgs, u \in UndefinedArgs :
          ValueNoise3DCall(a[1], a[2], a[3], a[4], u)

SpecNoiseGen == Init /\ [][NextNoiseGen]_vars

FoldedCall == last.op = "MakeInt32Range"

\* |n| < 2^30 and |n| <= 2^30, by the integers next to n
InsideOpen(n) == QFloor(n) < TwoPow30 /\ QCeil(n) > -TwoPow30

InsideClosed(n) == QCeil(n) <= TwoPow30 /\ QFloor(n) >= -TwoPow30

\* n is a nonzero integral multiple of 2^30
NonzeroMultipleOfTwoPow30(n) == n[2] = 1 /\ n[1] # 0 /\ n[1] % TwoPow30 = 0

\* C19, as stated: MakeInt32Range(x) is x for |x| < 2^30, and for every x,
\* the values +-2^30 included, the result y has |y| < 2^30.
C19_FoldedStrictlyInside ==
    FoldedCall =>
        LET x == last.args[1]
            y == last.ret
        IN  /\ InsideOpen(x) => y = x
            /\ InsideOpen(y)

\* C19, as the code has it: MakeInt32Range(x) is x for |x| < 2^30, and for
\* every x the result y has |y| <= 2^30; y is -2^30 exactly for the positive
\* multiples of 2^30 and +2^30 exactly for the negative ones, so the bound is
\* reached at x = +-2^30.
C19_FoldedWithinClosedRange ==
    FoldedCall =>
        LET x == last.args[1]
            y == last.ret
        IN  /\ InsideOpen(x) => y = x
            /\ InsideClosed(y)
            /\ y = Q(-TwoPow30) <=> (NonzeroMultipleOfTwoPow30(x) /\ x[1] > 0)
            /\ y = Q(TwoPow30) <=> (NonzeroMultipleOfTwoPow30(x) /\ x[1] < 0)

C19_Witness ==
    /\ FoldedCall
    /\ last.args = <<Q(TwoPow30)>>
    /\ last.ret = Q(-TwoPow30)

\* C20: for all 32-bit x, y, z and seed, the products and sums wrapping
\* modulo 2^32, IntValueNoise3D returns an integer in 0 .. 2147483647, and
\* ValueNoise3D, which is 1 - n / 2^30 for that integer n, lies in [-1, 1].
C20_ValueNoiseInRange ==
    /\ last.op = "IntValueNoise3D" => last.ret \in 0..MaxInt32
    /\ last.op = "ValueNoise3D" => QLe(Q(-1), last.ret) /\ QLe(last.ret, Q(1))
    /\ (last.op = "ValueNoise3D" /\ last.err = "ok") =>
           last.ret = QSub(Q(1), <<IntValueNoise3D(last.args[1], last.args[2],
                                                   last.args[3], last.args[4]),
                                   TwoPow30>>)

C20_Witness ==
    /\ last.op = "IntValueNoise3D"
    /\ last.args = <<1, 2, 3, 4>>
    /\ last.err = "ok"
    /\ last.ret = 1991767149

\* ------------------------------------------------------------------------
\* Blend over three Const children
\* ------------------------------------------------------------------------
\* Const::GetValue: the constant, whatever the point
ConstGetValue(constValue, p) == constValue

\* Blend::GetValue(p) with the children Const(c0), Const(c1), Const(c2)
BlendGetValueCall(p, c0, c1, c2) ==
    /\ CanCall
    /\ Called("Blend::GetValue", "blend", <<p, c0, c1, c2>>, "ok",
              BlendGetValue(ConstGetValue(c0, p), ConstGetValue(c1, p),
                            ConstGetValue(c2, p)))
    /\ UNCHANGED <<moduleState, aborted, bound, evalState>>

BlendConstArgs == {Q(-1), <<-1, 2>>, Q(0), <<1, 2>>, Q(1)}

BlendPoints == {<<Q(0), Q(0), Q(0)>>, <<Q(1), Q(2), Q(3)>>}

NextBlend ==
    \E p \in BlendPoints, c0 \in BlendConstArgs, c1 \in BlendConstArgs,
       c2 \in BlendConstArgs : BlendGetValueCall(p, c0, c1, c2)

SpecBlend == Init /\ [][NextBlend]_vars

\* The last call was Blend::GetValue.
BlendEvaluated == last.op = "Blend::GetValue"

\* Blend over Const(-1), Const(+1) and the control Const(0), at the origin.
BlendOfMinusOnePlusOneAtZero ==
    /\ BlendEvaluated
    /\ last.args = <<(<<Q(0), Q(0), Q(0)>>), Q(-1), Q(1), Q(0)>>

\* C21, as stated: Blend with children Const(-1), Const(+1) and control
\* Const(0) returns 0.5 at (0, 0, 0).
C21_BlendReturnsHalf ==
    BlendOfMinusOnePlusOneAtZero => last.ret = <<1, 2>>

\* C21, as the code has it: Blend's output is (1 - a) * child0 + a * child1
\* with a = (child2 + 1) / 2, which for the children Const(-1), Const(+1) and
\* the control Const(0) is the weight 0.5 and the output 0 at (0, 0, 0).
C21_BlendIsLinearInterp ==
    /\ BlendEvaluated =>
           LET child0 == last.args[2]
               child1 == last.args[3]
               a == <<last.args[4][1] + last.args[4][2], 2 * last.args[4][2]>>
           IN  QSub(last.ret, child0) = QMul(a, QSub(child1, child0))
    /\ BlendOfMinusOnePlusOneAtZero => last.ret = Q(0)

C21_Witness ==
    /\ BlendOfMinusOnePlusOneAtZero
    /\ last.ret = Q(0)

\* ------------------------------------------------------------------------
\* Voronoi: the cell of a point
\* ------------------------------------------------------------------------
\* A cell index that is the truncated coordinate on both sides of zero.
VoronoiCellIndexTruncated(c) == QTrunc(c)

\* (c > 0.0 ? static_cast<int>(c) : static_cast<int>(c) - 1): the cast
\* truncates toward zero.
VoronoiCellIndex(c) == IF QGt(c, Q(0)) THEN QTrunc(c) ELSE QTrunc(c) - 1

\* Voronoi::GetValue up to the cell indices: the coordinate is scaled by the
\* frequency and its cell index is taken.
VoronoiCellCall(x, frequency) ==
    /\ CanCall
    /\ LET c == QMul(x, frequency)
       IN  Called("Voronoi::GetValue", "voronoi", <<x, frequency>>, "ok",
                  [c |-> c, xInt |-> VoronoiCellIndex(c)])
    /\ UNCHANGED <<moduleState, aborted, bound, evalState>>

\* Coordinates at, between and on both sides of the integers -4 .. 4.
VoronoiCoordinateArgs == {<<n, 4>> : n \in -16..16}

VoronoiFrequencyArgs == {<<1, 2>>, Q(1), Q(2), Q(3)}

NextVoronoi ==
    \E x \in VoronoiCoordinateArgs, frequency \in VoronoiFrequencyArgs :
        VoronoiCellCall(x, frequency)

SpecVoronoi == Init /\ [][NextVoronoi]_vars

\* The last call computed a Voronoi cell index.
CellIndexed == last.op = "Voronoi::GetValue"

\* c has no fractional part.
IsInteger(c) == c[2] = 1

\* C26, as stated: the cell index of every coordinate c is floor(c), c = 0
\* and the exact negative integers included.
C26_CellIndexIsFloor ==
    CellIndexed => last.ret.xInt = QFloor(last.ret.c)

\* C26, as the code has it: the cell index is floor(c) for c > 0 and for
\* every c < 0 that is not an integer; for c = 0 and for the exact negative
\* integers it is floor(c) - 1, so c = 0 lies in cell -1 and c = -2 in cell -3.
C26_CellIndexIsFloorOffIntegers ==
    CellIndexed =>
        LET c == last.ret.c
        IN  /\ (QGt(c, Q(0)) \/ ~IsInteger(c)) => last.ret.xInt = QFloor(c)
            /\ (~QGt(c, Q(0)) /\ IsInteger(c)) => last.ret.xInt = QFloor(c) - 1

C26_Witness ==
    /\ CellIndexed
    /\ last.ret.c = Q(-2)
    /\ last.ret.xInt = -3

\* ------------------------------------------------------------------------
\* Checkerboard: neighbouring unit cubes
\* ------------------------------------------------------------------------
\* Coordinates around zero and around the limits +-2^30 of MakeInt32Range.
CheckerCoordinateArgs ==
    {Q(-2), Q(-1), <<-1, 2>>, Q(0), <<1, 2>>, Q(1),
     Q(TwoPow30 - 2), Q(TwoPow30 - 1), Q(TwoPow30), Q(TwoPow30 + 1),
     Q(-TwoPow30 - 1), Q(-TwoPow30), Q(1 - TwoPow30)}

\* Points with one coordinate from the list and the other two 0 or 1.
CheckerPoints ==
    UNION {{<<c, s, t>>, <<s, c, t>>, <<s, t, c>>} :
               c \in CheckerCoordinateArgs, s \in {Q(0), Q(1)}, t \in {Q(0), Q(1)}}

NextCheckerboard == \E p \in CheckerPoints : GetValueCall("checker", p)

SpecCheckerboard == Init /\ [][NextCheckerboard]_vars

\* The last call was Checkerboard::GetValue.
CheckerboardEvaluated ==
    /\ last.op = "GetValue"
    /\ last.m = "checker"
    /\ last.err = "ok"

\* floor(MakeInt32Range(c)) is odd
FoldedFloorOdd(c) == QFloor(MakeInt32Range(c)) % 2 = 1

\* The point p moved by one unit along the axis (1, 2 or 3)
MovedOneUnit(p, axis) == [p EXCEPT ![axis] = QAdd(p[axis], Q(1))]

\* -1 exactly when an odd number of the three folded floors are odd.
ParityRule ==
    CheckerboardEvaluated =>
        LET p == last.args[1]
            odd == Cardinality({axis \in 1..3 : FoldedFloorOdd(p[axis])})
        IN  last.ret = (IF odd % 2 = 1 THEN Q(-1) ELSE Q(1))

TurbulenceSetSeedCall(seed) ==
    /\ CanCall
    /\ \/ /\ m_distortModule' = TurbulenceSetSeed(m_distortModule, seed)
          /\ Called("Turbulence::SetSeed", "turbulence", <<seed>>, "ok", nullptr)
          /\ UNCHANGED aborted
       \/ /\ AddOverflows(seed, 2)
          /\ m_distortModule' =
                 IF AddOverflows(seed, 1)
                 THEN [m_distortModule EXCEPT !.x.m_seed = seed]
                 ELSE [m_distortModule EXCEPT !.x.m_seed = seed, !.y.m_seed = seed + 1]
          /\ Called("Turbulence::SetSeed", "turbulence", <<seed>>, "abort", nullptr)
          /\ aborted' = TRUE
    /\ UNCHANGED <<m_sourceModules, m_octaveCount, m_lowerBound, m_upperBound,
                   m_edgeFalloff, m_constValue, tableState, m_ridged,
                   m_translation, bound, evalState>>

\* Turbulence::SetFrequency(frequency)
TurbulenceSetFrequencyCall(frequency) ==
    /\ CanCall
    /\ m_distortModule' = TurbulenceSetFrequency(m_distortModule, frequency)
    /\ Called("Turbulence::SetFrequency", "turbulence", <<frequency>>, "ok", nullptr)
    /\ UNCHANGED <<m_sourceModules, m_octaveCount, m_lowerBound, m_upperBound,
                   m_edgeFalloff, m_constValue, tableState, m_ridged,
                   m_translation, aborted, bound, evalState>>

\* Turbulence::SetRoughness(roughness): the exception of Perlin::SetOctaveCount
\* leaves the setter.
TurbulenceSetRoughnessCall(roughness) ==
    /\ CanCall
    /\ LET result == TurbulenceSetRoughness(m_distortModule, roughness)
       IN  /\ m_distortModule' = result.distort
           /\ Called("Turbulence::SetRoughness", "turbulence", <<roughness>>,
                     IF result.throws THEN "ExceptionInvalidParam" ELSE "ok", nullptr)
    /\ UNCHANGED <<m_sourceModules, m_octaveCount, m_lowerBound, m_upperBound,
                   m_edgeFalloff, m_constValue, tableState, m_ridged,
                   m_translation, aborted, bound, evalState>>

SeedArgs == {MinInt32, -1, 0, 7, MaxInt32 - 1, MaxInt32}

TurbulenceFrequencyArgs == {<<1, 2>>, Q(1), Q(2)}

RoughnessArgs == {-1, 0, 1, 3, PERLIN_MAX_OCTAVE, PERLIN_MAX_OCTAVE + 1}

NextTurbulence ==
    \/ \E seed \in SeedArgs : TurbulenceSetSeedCall(seed)
    \/ \E frequency \in TurbulenceFrequencyArgs : TurbulenceSetFrequencyCall(frequency)
    \/ \E roughness \in RoughnessArgs : TurbulenceSetRoughnessCall(roughness)

SpecTurbulence == Init /\ [][NextTurbulence]_vars

\* The three Perlin modules share the frequency and the octave count, and
\* their seeds are s, s + 1, s + 2 in int arithmetic.
DistortModulesAgree ==
    /\ m_distortModule.x.m_frequency = m_distortModule.y.m_frequency
    /\ m_distortModule.y.m_frequency = m_distortModule.z.m_frequency
    /\ m_distortModule.x.m_octaveCount = m_distortModule.y.m_octaveCount
    /\ m_distortModule.y.m_octaveCount = m_distortModule.z.m_octaveCount
    /\ m_distortModule.y.m_seed = Add32(m_distortModule.x.m_seed, 1)
    /\ m_distortModule.z.m_seed = Add32(m_distortModule.x.m_seed, 2)

\* A completed SetSeed stores its argument as s, and no other call changes s.
SeedIsLastSet ==
    IF last'.op = "Turbulence::SetSeed" /\ last' # last
    THEN m_distortModule'.x.m_seed = last'.args[1]
    ELSE m_distortModule'.x.m_seed = m_distortModule.x.m_seed

\* A SetRoughness outside 1 .. 30 is rejected and changes nothing.
RejectedRoughnessKeepsAll ==
    (last'.op = "Turbulence::SetRoughness" /\ OctaveCountInvalid("Perlin", last'.args[1])) =>
        /\ last'.err = "ExceptionInvalidParam"
        /\ UNCHANGED m_distortModule

\* C23: after construction and after every SetSeed, SetFrequency and
\* SetRoughness of Turbulence that returns or throws, the three Perlin modules
\* have equal frequency, equal octave count and the seeds s, s + 1, s + 2 (in
\* int arithmetic), where s is the last value given to SetSeed and 0
\* initially; a SetRoughness outside 1 .. 30 is rejected and changes none of
\* the three.
C23_DistortModulesInStep ==
    /\ m_distortModule.x.m_seed = DEFAULT_TURBULENCE_SEED
    /\ [](~aborted => DistortModulesAgree)
    /\ [][~aborted' => (SeedIsLastSet /\ RejectedRoughnessKeepsAll)]_vars

C23_Witness ==
    /\ last.op = "Turbulence::SetRoughness"
    /\ last.args = <<PERLIN_MAX_OCTAVE + 1>>
    /\ last.err = "ExceptionInvalidParam"
    /\ m_distortModule.x.m_seed = 7
    /\ m_distortModule.z.m_seed = 9
    /\ m_distortModule.z.m_octaveCount = 1
    /\ m_distortModule.x.m_frequency = Q(2)

\* ------------------------------------------------------------------------
\* RidgedMulti: spectral weights and the octave loop
\* ------------------------------------------------------------------------
\* What a setter of RidgedMulti's own fields leaves alone.
ridgedOthers ==
    <<m_sourceModules, m_octaveCount, m_lowerBound, m_upperBound, m_edgeFalloff,
      m_constValue, tableState, m_distortModule, m_translation, aborted, bound,
      evalState>>

\* RidgedMulti::SetFrequency
RidgedSetFrequencyCall(frequency) ==
    /\ CanCall
    /\ m_ridged' = [m_ridged EXCEPT !.m_frequency = frequency]
    /\ Called("RidgedMulti::SetFrequency", "ridged", <<frequency>>, "ok", nullptr)
    /\ UNCHANGED ridgedOthers

\* A SetLacunarity that stores the lacunarity and keeps the old table.
RidgedSetLacunarityStale(ridged, lacunarity) ==
    [ridged EXCEPT !.m_lacunarity = lacunarity]

\* RidgedMulti::SetLacunarity: stores the lacunarity and calls
\* CalcSpectralWeights, which reads it.
RidgedSetLacunarity(ridged, lacunarity) ==
    [ridged EXCEPT !.m_lacunarity = lacunarity,
                   !.m_pSpectralWeights = CalcSpectralWeights(lacunarity)]

RidgedSetLacunarityCall(lacunarity) ==
    /\ CanCall
    /\ m_ridged' = RidgedSetLacunarity(m_ridged, lacunarity)
    /\ Called("RidgedMulti::SetLacunarity", "ridged", <<lacunarity>>, "ok", nullptr)
    /\ UNCHANGED ridgedOthers

\* RidgedMulti::SetNoiseQuality
RidgedSetNoiseQualityCall(noiseQuality) ==
    /\ CanCall
    /\ m_ridged' = [m_ridged EXCEPT !.m_noiseQuality = noiseQuality]
    /\ Called("RidgedMulti::SetNoiseQuality", "ridged", <<noiseQuality>>, "ok", nullptr)
    /\ UNCHANGED ridgedOthers

\* RidgedMulti::SetSeed
RidgedSetSeedCall(seed) ==
    /\ CanCall
    /\ m_ridged' = [m_ridged EXCEPT !.m_seed = seed]
    /\ Called("RidgedMulti::SetSeed", "ridged", <<seed>>, "ok", nullptr)
    /\ UNCHANGED ridgedOthers

\* The octave loop of RidgedMulti::GetValue: for curOctave = 0, 1, ... below
\* the octave count, the index at which m_pSpectralWeights is read and the
\* seed of the octave.
RECURSIVE OctaveLoopFrom(_, _, _)
OctaveLoopFrom(curOctave, octaveCount, seed) ==
    IF curOctave < octaveCount
    THEN <<[index |-> curOctave, seed |-> Mask31(Add32(seed, curOctave))]>>
             \o OctaveLoopFrom(curOctave + 1, octaveCount, seed)
    ELSE <<>>

\* RidgedMulti::GetValue: the iterations of its loop.  A read of
\* m_pSpectralWeights past its last entry is undefined.
RidgedGetValueCall ==
    /\ CanCall
    /\ LET octaves == OctaveLoopFrom(0, m_octaveCount["ridged"], m_ridged.m_seed)
           inside == \A k \in 1..Len(octaves) :
                         octaves[k].index \in DOMAIN m_ridged.m_pSpectralWeights
       IN  Called("RidgedMulti::GetValue", "ridged", <<>>,
                  IF inside THEN "ok" ELSE "undefined", octaves)
    /\ UNCHANGED <<moduleState, aborted, bound, evalState>>

\* 0.5, whose powers are doubles, and 2.5, whose powers from 2.5^23 on are not
RidgedLacunarityArgs == {D(1, -1), D(5, -1)}

RidgedOctaveArgs == {-1, 0, RIDGED_MAX_OCTAVE, RIDGED_MAX_OCTAVE + 1}

NextRidged ==
    \/ RidgedSetFrequencyCall(D(3, -1))
    \/ \E lacunarity \in RidgedLacunarityArgs : RidgedSetLacunarityCall(lacunarity)
    \/ RidgedSetNoiseQualityCall("QUALITY_BEST")
    \/ RidgedSetSeedCall(7)
    \/ \E octaveCount \in RidgedOctaveArgs : SetOctaveCount("ridged", octaveCount)
    \/ RidgedGetValueCall

SpecRidged == Init /\ [][NextRidged]_vars

\* The lacunarities a RidgedMulti of the model can hold.
RidgedLacunarities == RidgedLacunarityArgs \cup {DEFAULT_RIDGED_LACUNARITY}

\* The table CalcSpectralWeights fills for each of them.
SpectralWeightsOf == [lacunarity \in RidgedLacunarities |-> CalcSpectralWeights(lacunarity)]

\* The exact powers lacunarity^0 .. lacunarity^29 as sign, natural number and
\* binary exponent; from some power on they need more than 53 bits.
RECURSIVE ExactPowersFrom(_, _)
ExactPowersFrom(powers, lacunarity) ==
    IF Len(powers) >= RIDGED_MAX_OCTAVE THEN powers
    ELSE LET prev == powers[Len(powers)]
         IN  ExactPowersFrom(Append(powers, <<prev[1] * lacunarity[1],
                                              WMul(prev[2], lacunarity[2]),
                                              prev[3] + lacunarity[3]>>),
                             lacunarity)

ExactPowersOf ==
    [lacunarity \in RidgedLacunarities |-> ExactPowersFrom(<<D(1, 0)>>, lacunarity)]

\* lacunarity^i
ExactPower(lacunarity, i) == ExactPowersOf[lacunarity][i + 1]

\* The double nearest to lacunarity^(-i)
NearestInversePower(lacunarity, i) == DDiv(D(1, 0), ExactPower(lacunarity, i))

NearestInversePowersOf ==
    [lacunarity \in RidgedLacunarities |->
        [i \in 0..(RIDGED_MAX_OCTAVE - 1) |-> NearestInversePower(lacunarity, i)]]

\* lacunarity^i is a double
PowerIsDouble(lacunarity, i) == WBitLen(ExactPower(lacunarity, i)[2]) <= MantissaBits

\* A call other than SetLacunarity leaves the table as it is.
OtherSettersKeepWeights ==
    last'.op # "RidgedMulti::SetLacunarity" =>
        m_ridged'.m_pSpectralWeights = m_ridged.m_pSpectralWeights

RidgedEvaluated == last.op = "RidgedMulti::GetValue"

\* C25: every octave count RidgedMulti::SetOctaveCount accepts is at most 30,
\* so RidgedMulti::GetValue runs its octave loop at most 30 times (not at all
\* for a count of 0 or less) and reads the 30-entry table of spectral weights
\* only at the indices 0 .. 29.
C25_OctaveLoopWithinTable ==
    /\ m_octaveCount["ridged"] <= RIDGED_MAX_OCTAVE
    /\ RidgedEvaluated =>
           /\ Len(last.ret) <= RIDGED_MAX_OCTAVE
           /\ Len(last.ret) = (IF m_octaveCount["ridged"] > 0 THEN m_octaveCount["ridged"] ELSE 0)
           /\ \A k \in 1..Len(last.ret) : last.ret[k].index \in 0..(RIDGED_MAX_OCTAVE - 1)
           /\ last.err = "ok"

C25_Witness ==
    /\ RidgedEvaluated
    /\ m_octaveCount["ridged"] = RIDGED_MAX_OCTAVE
    /\ Len(last.ret) = RIDGED_MAX_OCTAVE
    /\ last.ret[RIDGED_MAX_OCTAVE].index = RIDGED_MAX_OCTAVE - 1

\* ------------------------------------------------------------------------
\* TranslatePoint over Checkerboard, in double arithmetic
\* ------------------------------------------------------------------------
RECURSIVE WToInt(_)
WToInt(a) == IF a = <<>> THEN 0 ELSE a[1] + Limb * WToInt(Tail(a))

\* static_cast<int>(std::floor(d)) for |d| < 2^31
DFloor(d) ==
    IF d[2] = <<>> THEN 0
    ELSE IF d[3] >= 0 THEN d[1] * WToInt(WShl(d[2], d[3]))
    ELSE LET q == WToInt(WShr(d[2], -d[3]))
         IN  IF d[1] > 0 THEN q ELSE (-q) - 1

\* std::fmod(n, 2^k): the bits of n below 2^k, with the sign of n
DFmod(n, k) ==
    IF n[2] = <<>> \/ n[3] >= k THEN DZero
    ELSE LET bits == k - n[3]
             low == WSub(n[2], WShl(WShr(n[2], bits), bits))
         IN  DCanon(n[1], low, n[3])

\* noisegen.h: MakeInt32Range(n) on doubles
DMakeInt32Range(n) ==
    IF ~DLt(n, D(1, 30))
    THEN DSub(DMul(D(2, 0), DFmod(n, 30)), D(1, 30))
    ELSE IF ~DLt(D(-1, 30), n)
         THEN DAdd(DMul(D(2, 0), DFmod(n, 30)), D(1, 30))
         ELSE n

\* Checkerboard::GetValue(x, y, z) on doubles
DCheckerboardValue(p) ==
    LET ix == DFloor(DMakeInt32Range(p[1]))
        iy == DFloor(DMakeInt32Range(p[2]))
        iz == DFloor(DMakeInt32Range(p[3]))
    IN  IF ((ix % 2) + (iy % 2) + (iz % 2)) % 2 = 1 THEN D(-1, 0) ELSE D(1, 0)

\* The source module of each TranslatePoint: outer wraps inner, and inner and
\* single wrap the Checkerboard.
TranslateSource == [outer |-> "inner", inner |-> "checker", single |-> "checker"]

\* A translation along the x axis only.
TranslatedPointAlongX(translation, p) == <<DAdd(p[1], translation[1]), p[2], p[3]>>

\* (x + m_xTranslation, y + m_yTranslation, z + m_zTranslation)
TranslatedPoint(translation, p) ==
    <<DAdd(p[1], translation[1]), DAdd(p[2], translation[2]), DAdd(p[3], translation[3])>>

\* TranslatePoint::GetValue, down to the Checkerboard
RECURSIVE TranslateGetValue(_, _)
TranslateGetValue(m, p) ==
    IF m \in TranslateModules
    THEN TranslateGetValue(TranslateSource[m], TranslatedPoint(m_translation[m], p))
    ELSE DCheckerboardValue(p)

\* TranslatePoint::SetTranslation(translation): the same on the three axes
TranslateSetTranslationCall(m, translation) ==
    /\ CanCall
    /\ m_translation' = [m_translation EXCEPT ![m] = <<translation, translation, translation>>]
    /\ Called("TranslatePoint::SetTranslation", m, <<translation>>, "ok", nullptr)
    /\ UNCHANGED <<m_sourceModules, m_octaveCount, m_lowerBound, m_upperBound,
                   m_edgeFalloff, m_constValue, tableState, m_distortModule,
                   m_ridged, aborted, bound, evalState>>

\* TranslatePoint::GetValue(x, y, z)
TranslateGetValueCall(m, p) ==
    /\ CanCall
    /\ Called("TranslatePoint::GetValue", m, <<p>>, "ok", TranslateGetValue(m, p))
    /\ UNCHANGED <<moduleState, aborted, bound, evalState>>

\* 0, 2^-55, 2^-54 and 1/2
TranslationArgs == {DZero, D(1, -55), D(1, -54), D(1, -1)}

\* 1 - 2^-53, the double just below 1
BelowOne == DSub(D(1, 0), D(1, -53))

TranslatePoints ==
    {<<DZero, DZero, DZero>>, <<BelowOne, DZero, DZero>>, <<DZero, BelowOne, D(1, -1)>>,
     <<D(3, -1), D(-1, -1), D(1, -2)>>}

NextTranslate ==
    \/ \E m \in TranslateModules, translation \in TranslationArgs :
           TranslateSetTranslationCall(m, translation)
    \/ \E m \in TranslateModules, p \in TranslatePoints : TranslateGetValueCall(m, p)

SpecTranslate == Init /\ [][NextTranslate]_vars

\* a + b without rounding: the sum as a real number
DAddExact(a, b) ==
    LET e == DMin(a[3], b[3])
        ma == WShl(a[2], a[3] - e)
        mb == WShl(b[2], b[3] - e)
        c == WCmp(ma, mb)
    IN  IF a[1] = b[1] THEN DCanon(a[1], WAdd(ma, mb), e)
        ELSE IF c = 0 THEN DZero
        ELSE IF c > 0 THEN DCanon(a[1], WSub(ma, mb), e)
        ELSE DCanon(b[1], WSub(mb, ma), e)

\* The double sum a + b is the real sum.
SumIsExact(a, b) == DAdd(a, b) = DAddExact(a, b)

\* The last call was GetValue on the outer of the two nested TranslatePoints.
NestedEvaluated ==
    /\ last.op = "TranslatePoint::GetValue"
    /\ last.m = "outer"

\* The translation of single is the double sum of those of outer and inner.
SingleIsSum ==
    \A axis \in 1..3 :
        m_translation["single"][axis]
            = DAdd(m_translation["outer"][axis], m_translation["inner"][axis])

\* None of the additions made on the way to the Checkerboard is rounded.
TranslationsExact(p) ==
    \A axis \in 1..3 :
        LET a == m_translation["outer"][axis]
            b == m_translation["inner"][axis]
        IN  /\ SumIsExact(p[axis], a)
            /\ SumIsExact(DAdd(p[axis], a), b)
            /\ SumIsExact(a, b)
            /\ SumIsExact(p[axis], DAdd(a, b))

\* C22, as stated: TranslatePoint(a) applied to TranslatePoint(b) applied to M
\* gives at every point p the value of a single TranslatePoint(a + b) applied
\* to M.
C22_TranslationsCompose ==
    (NestedEvaluated /\ SingleIsSum) =>
        last.ret = TranslateGetValue("single", last.args[1])

\* C22, as the code has it: the nested TranslatePoints evaluate M at
\* (p + a) + b and the single one at p + (a + b), each sum rounded to a
\* double; the two values agree when none of these additions is rounded, and
\* can differ otherwise.
C22_TranslationsComposeWhenExact ==
    NestedEvaluated =>
        LET p == last.args[1]
            a == m_translation["outer"]
            b == m_translation["inner"]
        IN  /\ last.ret = DCheckerboardValue([axis \in 1..3 |->
                              DAdd(DAdd(p[axis], a[axis]), b[axis])])
            /\ (SingleIsSum /\ TranslationsExact(p)) =>
                   last.ret = TranslateGetValue("single", p)

\* a = b = 2^-55 and p = (1 - 2^-53, 0, 0): (p + a) + b stays below 1 and
\* p + (a + b) is 1.
C22_Witness ==
    /\ NestedEvaluated
    /\ SingleIsSum
    /\ m_translation["outer"][1] = D(1, -55)
    /\ m_translation["inner"][1] = D(1, -55)
    /\ last.args[1] = <<BelowOne, DZero, DZero>>
    /\ last.ret = D(1, 0)
    /\ TranslateGetValue("single", last.args[1]) = D(-1, 0)

\* ------------------------------------------------------------------------
\* Select: SetBounds in one thread while another thread is in GetValue
\* ------------------------------------------------------------------------
\* The three fields of the Select module that GetValue reads.
SelectConfig ==
    [lowerBound |-> m_lowerBound["select"], upperBound |-> m_upperBound["select"],
     edgeFalloff |-> m_edgeFalloff]

\* What a step of the two threads leaves alone.
raceOthers ==
    <<m_sourceModules, m_octaveCount, m_constValue, tableState, generatorState,
      last, bound, stack, locals, done, build>>

\* The evaluation in progress, if any, has now run alongside a setter.
Overlapped == IF reader.pc \in {"idle", "returned"} THEN reader ELSE [reader EXCEPT !.overlapped = TRUE]

\* Select::SetBounds is entered: assert(lowerBound < upperBound) ends the
\* process when it fails, or is compiled out.
SetBoundsBegin(lowerBound, upperBound) ==
    /\ CanCall
    /\ setter.pc = "idle"
    /\ \/ /\ ~QLt(lowerBound, upperBound)
          /\ aborted' = TRUE
          /\ UNCHANGED <<setter, reader>>
       \/ /\ setter' = [pc |-> "lower", lowerBound |-> lowerBound,
                        upperBound |-> upperBound, pre |-> SelectConfig]
          /\ reader' = Overlapped
          /\ UNCHANGED aborted
    /\ UNCHANGED <<m_lowerBound, m_upperBound, m_edgeFalloff, raceOthers>>

\* m_lowerBound = lowerBound;
SetBoundsWriteLower ==
    /\ CanCall
    /\ setter.pc = "lower"
    /\ m_lowerBound' = [m_lowerBound EXCEPT !["select"] = setter.lowerBound]
    /\ setter' = [setter EXCEPT !.pc = "upper"]
    /\ reader' = Overlapped
    /\ UNCHANGED <<m_upperBound, m_edgeFalloff, aborted, raceOthers>>

\* m_upperBound = upperBound;
SetBoundsWriteUpper ==
    /\ CanCall
    /\ setter.pc = "upper"
    /\ m_upperBound' = [m_upperBound EXCEPT !["select"] = setter.upperBound]
    /\ setter' = [setter EXCEPT !.pc = "falloff"]
    /\ reader' = Overlapped
    /\ UNCHANGED <<m_lowerBound, m_edgeFalloff, aborted, raceOthers>>

\* SetEdgeFalloff(m_edgeFalloff); and the return of SetBounds
SetBoundsSetEdgeFalloff ==
    /\ CanCall
    /\ setter.pc = "falloff"
    /\ m_edgeFalloff' = ClampedFalloff(m_edgeFalloff, m_lowerBound["select"],
                                       m_upperBound["select"])
    /\ setter' = [setter EXCEPT !.pc = "idle"]
    /\ reader' = Overlapped
    /\ UNCHANGED <<m_lowerBound, m_upperBound, aborted, raceOthers>>

\* Select::SetEdgeFalloff called while no evaluation and no SetBounds is running
QuietSetEdgeFalloff(edgeFalloff) ==
    /\ setter.pc = "idle"
    /\ reader.pc \in {"idle", "returned"}
    /\ SetEdgeFalloff("select", edgeFalloff)

\* A reader that takes the default bounds instead of the ones it has read.
ReaderBranchDefaultBounds(controlValue, edgeFalloff, lowerBound, upperBound) ==
    SelectBranch(controlValue, DEFAULT_LOWER_BOUND, DEFAULT_UPPER_BOUND, edgeFalloff)

\* The branch Select::GetValue takes on the field values it has read.
ReaderBranch(controlValue, edgeFalloff, lowerBound, upperBound) ==
    SelectBranch(controlValue, lowerBound, upperBound, edgeFalloff)

\* Select::GetValue reaches a comparison that reads m_upperBound: the control
\* value is not below lower + falloff, or not below lower without a falloff.
ReadsUpperBound(controlValue, edgeFalloff, lowerBound) ==
    IF QGt(edgeFalloff, Q(0))
    THEN ~QLt(controlValue, QAdd(lowerBound, edgeFalloff))
    ELSE ~QLt(controlValue, lowerBound)

\* Select::GetValue is entered and the control module has returned
\* controlValue.  Each field is read once, in the order of its first use.
GetValueBegin(controlValue) ==
    /\ CanCall
    /\ reader.pc \in {"idle", "returned"}
    /\ reader' = [ReaderIdle EXCEPT !.pc = "falloff", !.controlValue = controlValue,
                                    !.at = SelectConfig,
                                    !.overlapped = (setter.pc # "idle")]
    /\ UNCHANGED <<m_lowerBound, m_upperBound, m_edgeFalloff, aborted, setter, raceOthers>>

\* if (m_edgeFalloff > 0.0)
GetValueReadFalloff ==
    /\ CanCall
    /\ reader.pc = "falloff"
    /\ reader' = [reader EXCEPT !.pc = "lower", !.edgeFalloff = m_edgeFalloff]
    /\ UNCHANGED <<m_lowerBound, m_upperBound, m_edgeFalloff, aborted, setter, raceOthers>>

\* The comparisons with m_lowerBound; GetValue returns from them unless the
\* control value lies above.
GetValueReadLower ==
    /\ CanCall
    /\ reader.pc = "lower"
    /\ LET lowerBound == m_lowerBound["select"]
       IN  reader' =
               IF ReadsUpperBound(reader.controlValue, reader.edgeFalloff, lowerBound)
               THEN [reader EXCEPT !.pc = "upper", !.lowerBound = lowerBound]
               ELSE [reader EXCEPT !.pc = "returned", !.lowerBound = lowerBound,
                                   !.branch = ReaderBranch(reader.controlValue,
                                                           reader.edgeFalloff,
                                                           lowerBound, nullptr)]
    /\ UNCHANGED <<m_lowerBound, m_upperBound, m_edgeFalloff, aborted, setter, raceOthers>>

\* The comparisons with m_upperBound, and the return
GetValueReadUpper ==
    /\ CanCall
    /\ reader.pc = "upper"
    /\ LET upperBound == m_upperBound["select"]
       IN  reader' = [reader EXCEPT !.pc = "returned", !.upperBound = upperBound,
                                    !.branch = ReaderBranch(reader.controlValue,
                                                            reader.edgeFalloff,
                                                            reader.lowerBound, upperBound)]
    /\ UNCHANGED <<m_lowerBound, m_upperBound, m_edgeFalloff, aborted, setter, raceOthers>>

\* The default bounds, the bounds (0, 2), and a pair that fails the assertion
RaceBoundArgs == {<<Q(-1), Q(1)>>, <<Q(0), Q(2)>>, <<Q(1), Q(0)>>}

RaceControlArgs == {Q(0), Q(1)}

NextRace ==
    \/ \E bounds \in RaceBoundArgs : SetBoundsBegin(bounds[1], bounds[2])
    \/ SetBoundsWriteLower
    \/ SetBoundsWriteUpper
    \/ SetBoundsSetEdgeFalloff
    \/ QuietSetEdgeFalloff(Q(1))
    \/ \E c \in RaceControlArgs : GetValueBegin(c)
    \/ GetValueReadFalloff
    \/ GetValueReadLower
    \/ GetValueReadUpper

SpecRace == Init /\ [][NextRace]_vars

\* The field values an evaluation has read, with the upper bound it never
\* read taken from the configuration cfg.
ReaderSaw(cfg) ==
    [lowerBound |-> reader.lowerBound,
     upperBound |-> IF reader.upperBound = nullptr THEN cfg.upperBound ELSE reader.upperBound,
     edgeFalloff |-> reader.edgeFalloff]

\* The configuration a completed SetBounds leaves from the one it found.
PostConfig(pre, lowerBound, upperBound) ==
    [lowerBound |-> lowerBound, upperBound |-> upperBound,
     edgeFalloff |-> ClampedFalloff(pre.edgeFalloff, lowerBound, upperBound)]

\* C28: an evaluation of Select during which no setter ran uses exactly the
\* configuration it started in, whose edge falloff is at most
\* (upper - lower) / 2, and takes the branch of that configuration; an
\* evaluation that overlaps SetBounds can read a mix of old and new fields
\* that is neither the configuration before the call nor the one after it
\* (the state of C28_Witness), so the absence of mutation during evaluation is
\* needed.
C28_UndisturbedReadIsConsistent ==
    (reader.pc = "returned" /\ ~reader.overlapped) =>
        /\ ReaderSaw(reader.at) = reader.at
        /\ QLe(QDouble(reader.at.edgeFalloff),
               QSub(reader.at.upperBound, reader.at.lowerBound))
        /\ reader.branch = SelectBranch(reader.controlValue, reader.at.lowerBound,
                                        reader.at.upperBound, reader.at.edgeFalloff)

\* SetBounds(0, 2) ran from the configuration (-1, 1, falloff 1) while the
\* evaluation was reading: the reader returned having seen the new lower
\* bound 0 with the old upper bound 1 and the falloff 1 > (1 - 0) / 2, which
\* is neither the configuration before the call nor the one after it.
C28_Witness ==
    /\ reader.pc = "returned"
    /\ reader.overlapped
    /\ setter.pc = "idle"
    /\ setter.pre = [lowerBound |-> Q(-1), upperBound |-> Q(1), edgeFalloff |-> Q(1)]
    /\ reader.upperBound # nullptr
    /\ reader.lowerBound = setter.lowerBound
    /\ reader.upperBound = setter.pre.upperBound
    /\ reader.upperBound # setter.upperBound
    /\ QGt(QDouble(reader.edgeFalloff), QSub(reader.upperBound, reader.lowerBound))
    /\ ReaderSaw(setter.pre) # setter.pre
    /\ ReaderSaw(setter.pre) # PostConfig(setter.pre, setter.lowerBound, setter.upperBound)
    /\ SelectConfig = PostConfig(setter.pre, setter.lowerBound, setter.upperBound)

\* ------------------------------------------------------------------------
\* NoiseMapBuilderSphere::Build: rows divided among worker threads
\* ------------------------------------------------------------------------
\* The model builds maps of at most MaxHeight rows and MaxWidth columns.
MaxHeight == 4

MaxWidth == 2

\* The fallback when std::thread::hardware_concurrency() returns 0
FallbackThreads == 4

\* numThreads: the hardware concurrency, or the fallback, and at most one
\* thread per row
NumThreads(hardwareConcurrency, destHeight) ==
    LET numThreads == IF hardwareConcurrency = 0 THEN FallbackThreads ELSE hardwareConcurrency
    IN  IF numThreads < destHeight THEN numThreads ELSE destHeight

\* A division that gives every thread rowsPerThread rows and drops the rest.
RowCountNoRemainder(t, rowsPerThread, remainingRows) == rowsPerThread

\* rowCount = rowsPerThread + (t < remainingRows ? 1 : 0)
RowCount(t, rowsPerThread, remainingRows) ==
    rowsPerThread + (IF t < remainingRows THEN 1 ELSE 0)

\* The loop that creates the threads: thread t gets the rows startRow ..
\* endRow - 1 and starts at its first cell; the loop ends at the first
\* thread without rows.
RECURSIVE SpawnFrom(_, _, _, _, _)
SpawnFrom(t, startRow, numThreads, rowsPerThread, remainingRows) ==
    IF t >= numThreads \/ RowCount(t, rowsPerThread, remainingRows) = 0 THEN <<>>
    ELSE LET endRow == startRow + RowCount(t, rowsPerThread, remainingRows)
         IN  <<[startRow |-> startRow, endRow |-> endRow, y |-> startRow, x |-> 0]>>
                 \o SpawnFrom(t + 1, endRow, numThreads, rowsPerThread, remainingRows)

\* What Build and its workers leave alone.
buildOthers ==
    <<moduleState, aborted, last, bound, stack, locals, done, setter, reader>>

\* Build is called with valid bounds, a source module and a destination map:
\* it throws for an empty destination; otherwise it resizes the map and
\* creates the worker threads.
BuildBegin(destWidth, destHeight, callback, hardwareConcurrency) ==
    /\ CanCall
    /\ build.pc \in {"idle", "returned", "threw"}
    /\ IF destWidth <= 0 \/ destHeight <= 0
       THEN build' = [BuildIdle EXCEPT !.pc = "threw", !.destWidth = destWidth,
                                       !.destHeight = destHeight]
       ELSE LET numThreads == NumThreads(hardwareConcurrency, destHeight)
            IN  build' =
                    [pc |-> "joining", destWidth |-> destWidth, destHeight |-> destHeight,
                     callback |-> callback,
                     workers |-> SpawnFrom(0, 0, numThreads, destHeight \div numThreads,
                                           destHeight % numThreads),
                     written |-> [y \in 0..(destHeight - 1) |->
                                     [x \in 0..(destWidth - 1) |-> 0]],
                     writers |-> [y \in 0..(destHeight - 1) |-> {}],
                     callbacks |-> [y \in 0..(destHeight - 1) |-> 0]]
    /\ UNCHANGED buildOthers

\* *pDest++ = curValue; in worker t
WorkerWriteCell(t) ==
    /\ CanCall
    /\ build.pc = "joining"
    /\ t \in DOMAIN build.workers
    /\ LET w == build.workers[t]
       IN  /\ w.y < w.endRow
           /\ w.x < build.destWidth
           /\ build' = [build EXCEPT !.workers[t].x = w.x + 1,
                                     !.written[w.y][w.x] = @ + 1,
                                     !.writers[w.y] = @ \cup {t}]
    /\ UNCHANGED buildOthers

\* The end of a row in worker t: the callback, if one is set, and y++
WorkerEndRow(t) ==
    /\ CanCall
    /\ build.pc = "joining"
    /\ t \in DOMAIN build.workers
    /\ LET w == build.workers[t]
       IN  /\ w.y < w.endRow
           /\ w.x >= build.destWidth
           /\ build' = [build EXCEPT !.workers[t].x = 0,
                                     !.workers[t].y = w.y + 1,
                                     !.callbacks[w.y] = IF build.callback THEN @ + 1 ELSE @]
    /\ UNCHANGED buildOthers

\* thread.join() has returned for every worker: Build returns.
BuildReturn ==
    /\ CanCall
    /\ build.pc = "joining"
    /\ \A t \in DOMAIN build.workers : build.workers[t].y >= build.workers[t].endRow
    /\ build' = [build EXCEPT !.pc = "returned"]
    /\ UNCHANGED buildOthers

\* 0 stands for an unavailable hardware concurrency, 8 for more cores than rows
ConcurrencyArgs == {0, 1, 2, 3, 8}

NextBuild ==
    \/ \E destWidth \in 0..MaxWidth, destHeight \in 0..MaxHeight, callback \in BOOLEAN,
          hardwareConcurrency \in ConcurrencyArgs :
           BuildBegin(destWidth, destHeight, callback, hardwareConcurrency)
    \/ \E t \in 1..MaxHeight : WorkerWriteCell(t)
    \/ \E t \in 1..MaxHeight : WorkerEndRow(t)
    \/ BuildReturn

SpecBuild == Init /\ [][NextBuild]_vars

\* The rows given to worker t
RowsOf(t) == build.workers[t].startRow..(build.workers[t].endRow - 1)

\* The ranges are non-empty, follow one another from row 0 to row H - 1, and
\* there are at most H of them.
RowsPartitioned ==
    LET n == Len(build.workers)
    IN  /\ n >= 1
        /\ n <= build.destHeight
        /\ build.workers[1].startRow = 0
        /\ build.workers[n].endRow = build.destHeight
        /\ \A t \in 1..n : build.workers[t].startRow < build.workers[t].endRow
        /\ \A t \in 1..(n - 1) : build.workers[t].endRow = build.workers[t + 1].startRow
        /\ \A t, u \in 1..n : t # u => RowsOf(t) \cap RowsOf(u) = {}

\* No cell has been written twice, a row is written only by the worker that
\* owns it, and no row has had its callback twice.
WritesDisjoint ==
    \A y \in 0..(build.destHeight - 1) :
        /\ \A x \in 0..(build.destWidth - 1) : build.written[y][x] <= 1
        /\ \A t \in build.writers[y] : y \in RowsOf(t)
        /\ Cardinality(build.writers[y]) <= 1
        /\ build.callbacks[y] <= 1

\* Every cell has been written once, and every row has had its callback once
\* when a callback is set.
AllRowsBuilt ==
    \A y \in 0..(build.destHeight - 1) :
        /\ \A x \in 0..(build.destWidth - 1) : build.written[y][x] = 1
        /\ Cardinality(build.writers[y]) = 1
        /\ build.callbacks[y] = (IF build.callback THEN 1 ELSE 0)

\* C29: Build with H > 0 rows divides the rows 0 .. H - 1 into contiguous,
\* pairwise disjoint, non-empty ranges, one per worker and at most H workers;
\* every row is written by one worker only and no cell twice; when Build
\* returns every worker has finished, every cell of the H rows has been
\* written exactly once and the callback, when one is set, has been invoked
\* exactly once for every row.
C29_RowsBuiltOnceEach ==
    /\ build.pc \in {"joining", "returned"} =>
           /\ build.destHeight > 0
           /\ RowsPartitioned
           /\ WritesDisjoint
    /\ build.pc = "returned" =>
           /\ \A t \in DOMAIN build.workers :
                  build.workers[t].y = build.workers[t].endRow
           /\ AllRowsBuilt

\* Build has returned from a map of 3 rows divided between 2 workers, the
\* first of which had 2 rows.
C29_Witness ==
    /\ build.pc = "returned"
    /\ build.destHeight = 3
    /\ build.destWidth = MaxWidth
    /\ build.callback
    /\ Len(build.workers) = 2
    /\ RowsOf(1) = {0, 1}
    /\ RowsOf(2) = {2}
    /\ AllRowsBuilt

\* ------------------------------------------------------------------------
\* Termination of GetValue: acyclic graphs, cycles, generator loops
\* ------------------------------------------------------------------------
\* The depth of call stack a thread has; a call beyond it ends the process.
MaxStack == 4

\* The asserts of GetValue: every slot of every module the evaluation can
\* reach is bound.  Nothing in GetValue or SetSourceModule looks for a cycle.
SlotsBound(m) ==
    \A d \in Below(m) \cup {m} :
       /\ KindOf[d] \in EvalKinds
       /\ \A i \in 1..Len(m_sourceModules[d]) : m_sourceModules[d][i] # nullptr

\* A thread calls GetValue(p) on the root m of a graph that may hold a cycle.
GetValueOnGraph(t, m, p) ==
    /\ ~aborted
    /\ stack[t] = <<>>
    /\ Started < MaxEvals
    /\ SlotsBound(m)
    /\ stack' = [stack EXCEPT ![t] = <<[m |-> m, p |-> p, slot |-> -1]>>]
    /\ locals' = Put(locals, LocalKey(t, 1, m), NoVals)
    /\ GetValueWrites(m)
    /\ UNCHANGED <<aborted, last, bound, done, threadState>>

\* A child call that fits on the stack.
CallWithinStack(t) ==
    /\ ~aborted
    /\ Len(stack[t]) < MaxStack
    /\ Call(t)

\* A child call with the stack full: the process is killed.
StackExhausted(t) ==
    /\ ~aborted
    /\ Len(stack[t]) = MaxStack
    /\ Pending(Top(t).m, Top(t).p, TopVals(t)) # {}
    /\ aborted' = TRUE
    /\ UNCHANGED <<moduleState, last, bound, evalState>>

ReturnRunning(t) ==
    /\ ~aborted
    /\ Return(t)

\* Binding is done between evaluations (the lifecycle of a module).
BindQuiet(m, index, sourceModule) ==
    /\ \A t \in Threads : stack[t] = <<>>
    /\ SetSourceModule(m, index, sourceModule)

\* for (curOctave = 0; curOctave < m_octaveCount; curOctave++)
RECURSIVE FractalLoopFrom(_, _)
FractalLoopFrom(curOctave, octaveCount) ==
    IF curOctave < octaveCount
    THEN <<curOctave>> \o FractalLoopFrom(curOctave + 1, octaveCount)
    ELSE <<>>

\* Perlin::GetValue, Billow::GetValue, RidgedMulti::GetValue: the iterations
\* of the octave loop.
FractalGetValueCall(m) ==
    /\ CanCall
    /\ m \in OctaveModules
    /\ Called("Fractal::GetValue", m, <<>>, "ok", FractalLoopFrom(0, m_octaveCount[m]))
    /\ UNCHANGED <<moduleState, aborted, bound, evalState>>

\* for (cCur = cInt - 2; cCur <= cInt + 2; cCur++)
RECURSIVE AxisLoopFrom(_, _)
AxisLoopFrom(cCur, cInt) ==
    IF cCur <= cInt + 2
    THEN <<cCur>> \o AxisLoopFrom(cCur + 1, cInt)
    ELSE <<>>

\* A scan of the cells next to cInt only.
AxisLoopAdjacent(cInt) == AxisLoopFrom(cInt - 1, cInt - 1)

\* The values the loop variable of one axis takes.
AxisLoop(cInt) == AxisLoopFrom(cInt - 2, cInt)

\* The cells the three nested loops of Voronoi::GetValue visit, in order:
\* z outermost, x innermost.
VoronoiScan(xInt, yInt, zInt) ==
    LET xs == AxisLoop(xInt)
        ys == AxisLoop(yInt)
        zs == AxisLoop(zInt)
    IN  [k \in 1..(Len(zs) * Len(ys) * Len(xs)) |->
            <<xs[((k - 1) % Len(xs)) + 1],
              ys[(((k - 1) \div Len(xs)) % Len(ys)) + 1],
              zs[((k - 1) \div (Len(xs) * Len(ys))) + 1]>>]

\* cInt - 2 or cInt + 2 leaves the range of int: signed overflow.
AxisOverflows(cInt) == cInt < MinInt32 + 2 \/ cInt > MaxInt32 - 2

\* Voronoi::GetValue: the cells it scans around the cell of the input point.
VoronoiScanCall(xInt, yInt, zInt) ==
    /\ CanCall
    /\ IF AxisOverflows(xInt) \/ AxisOverflows(yInt) \/ AxisOverflows(zInt)
       THEN Called("Voronoi::GetValue", "voronoi", <<xInt, yInt, zInt>>,
                   "undefined", nullptr)
       ELSE Called("Voronoi::GetValue", "voronoi", <<xInt, yInt, zInt>>, "ok",
                   VoronoiScan(xInt, yInt, zInt))
    /\ UNCHANGED <<moduleState, aborted, bound, evalState>>

\* Binds that build a chain add -> clamp -> checker, close it into a cycle,
\* and make a Select its own first source.
BindArgs ==
    {<<"add", 0, "const">>, <<"add", 1, "clamp">>, <<"clamp", 0, "checker">>,
     <<"clamp", 0, "add">>, <<"select", 0, "select">>, <<"select", 1, "checker">>,
     <<"select", 1, "select">>, <<"select", 2, "const">>}

GraphRoots == {"add", "clamp", "select"}

GraphPoint == <<Q(1), Q(0), Q(0)>>

CellArgs == {-1, 0, MaxInt32 - 1}

NextGraphEval ==
    \/ \E b \in BindArgs : BindQuiet(b[1], b[2], b[3])
    \/ \E m \in GraphRoots : GetValueOnGraph(1, m, GraphPoint)
    \/ CallWithinStack(1)
    \/ StackExhausted(1)
    \/ ReturnRunning(1)
    \/ \E n \in {1, PERLIN_MAX_OCTAVE} : SetOctaveCount("perlin", n)
    \/ FractalGetValueCall("perlin")
    \/ \E c \in CellArgs : VoronoiScanCall(c, 0, -1)

\* A step of the running evaluation.
EvalStep == CallWithinStack(1) \/ StackExhausted(1) \/ ReturnRunning(1)

SpecGraphEval == Init /\ [][NextGraphEval]_vars

\* A thread that is inside GetValue keeps running.
FairSpecGraphEval == SpecGraphEval /\ WF_vars(EvalStep)

Running == stack[1] # <<>>

\* The root of the running evaluation heads an acyclic, fully bound graph.
RunningAcyclic == Running /\ Evaluable(stack[1][1].m)

\* The root of the running evaluation has itself below it.
RunningCyclic ==
    /\ Running
    /\ \E d \in Below(stack[1][1].m) \cup {stack[1][1].m} : d \in Below(d)

ReturnedNormally == stack[1] = <<>> /\ ~aborted

\* A module is called at a point while its own call at that point is active.
ReEntered ==
    \E i, j \in 1..Len(stack[1]) :
       i < j /\ stack[1][i].m = stack[1][j].m /\ stack[1][i].p = stack[1][j].p

\* The evaluation that just returned to its caller.
Finished == done'[1][Len(done'[1])]

RootReturns == Len(done'[1]) > Len(done[1])

BindAccepted ==
    (last.op = "SetSourceModule" /\ ~InvalidIndex(last.m, last.args[1]))
       => /\ last.err = "ok"
          /\ m_sourceModules[last.m][last.args[1] + 1] = last.args[2]

OctaveLoopBounded ==
    last.op = "Fractal::GetValue"
       => /\ Len(last.ret) <= m_octaveCount[last.m]
          /\ Len(last.ret) <= PERLIN_MAX_OCTAVE

ScansAllCells ==
    (last.op = "Voronoi::GetValue" /\ last.err = "ok")
       => /\ Len(last.ret) = 125
          /\ Cardinality({last.ret[k] : k \in 1..Len(last.ret)}) = 125

\* C30 as stated: an evaluation of an acyclic, fully bound graph returns, a
\* fractal loop runs at most its octave count of times and Voronoi scans 125
\* cells, SetSourceModule accepts a bind that closes a cycle, and no
\* evaluation whose root has a module below itself ever returns.
C30_CyclicGraphNeverReturns ==
    /\ RunningAcyclic ~> ReturnedNormally
    /\ [](BindAccepted /\ OctaveLoopBounded /\ ScansAllCells)
    /\ [][RunningCyclic => ~RootReturns]_vars

\* C30: an evaluation of an acyclic, fully bound graph returns, a fractal loop
\* runs at most its octave count of times and Voronoi scans 125 distinct cells
\* when the cell indices plus and minus 2 are ints, SetSourceModule accepts a
\* bind that closes a cycle, and an evaluation that re-enters a module at the
\* same point while that module's call is active never returns: it stays
\* re-entered until the stack is exhausted.  A cycle through a branch Select
\* does not evaluate is never entered.
C30_ReEnteredEvaluationNeverReturns ==
    /\ RunningAcyclic ~> ReturnedNormally
    /\ [](BindAccepted /\ OctaveLoopBounded /\ ScansAllCells)
    /\ [][ReEntered => (ReEntered' /\ ~RootReturns)]_vars
    /\ ReEntered ~> aborted

\* An evaluation of the closed chain add -> clamp -> add has exhausted the
\* stack after both binds were accepted.
C30_Witness ==
    /\ aborted
    /\ ReEntered
    /\ m_sourceModules["clamp"][1] = "add"
    /\ m_sourceModules["add"][2] = "clamp"
    /\ stack[1][1].m = "add"
    /\ Len(stack[1]) = MaxStack

====
